---- MODULE Spec2Model ----
(***************************************************************************)
(* A model of the sfzocr identity-card field extraction engine             *)
(* (app/core/ocr_engine.py, app/utils/validators.py).                      *)
(*                                                                         *)
(* Text is modelled as a sequence of characters, each character one TLA+   *)
(* string.  ASCII characters stand for themselves; a CJK character is      *)
(* written as a lower-case romanisation of two or more letters:            *)
(*   xing 姓  ming 名  xingb 性  bie 别  min 民  zu 族  chu 出  sheng 生    *)
(*   zhu 住  zhi 址  gong 公  shen 身  fen 份  hao 号  ma 码  qian 签       *)
(*   fa 发  ji 机  guan 关  you 有  xiao 效  qi 期  xian 限  zhib 至        *)
(*   zhong 中  hua 华  ren 人  gongb 共  he 和  guo 国  han 汉  nan 男      *)
(*   nv 女  nian 年  yue 月  ri 日  sheng_p 省  shi 市  qu 区  xianb 县     *)
(*   xiang 乡  zhen 镇  cun 村  zub 组  lu 路  jie 街  dao 道  shib 室      *)
(*   dong 栋  dan 单  yuan 元  she 社  dui 队  xiangb 巷  nong 弄  li 里    *)
(*   zheng 证  jian 件  yang 样  ben 本  jib 籍  zhang 张  san 三  lib 李   *)
(*   si 四  bei 北  jing 京  hai 海  dian 淀  bian 边  zhuang 庄  tai 太    *)
(*   ping 平  hui 回  meng 蒙  zang 藏  wei 维  miao 苗  yi 彝  zhuangb 壮  *)
(*   man 满  jia 加  na 拿  da 大  mei 美  ying 英  guanb 管  lib2 理       *)
(*   ju 局  yib 移  di 第                                                   *)
(*   xin 新  ban 版  wai 外  yong 永  jiu 久  jub 居  liu 留  jiub 旧      *)
(*   (the definition CJK lists every ideograph of the alphabet)            *)
(*   fcolon ：  fcomma ，  fstop 。  dun 、  fsemi ；  (full-width marks)   *)
(***************************************************************************)
EXTENDS Integers, Sequences, FiniteSets, TLC

VARIABLES
    OCR_PERFORMANCE_CONFIG,  \* the shared configuration mapping (config.py)
    ocr_cache,               \* _ocr_cache: insertion-ordered mapping hash -> OCR result
    world,                   \* the image the requests carry and what the OCR engine reads in it
    pc,                      \* where the calling process is
    call,                    \* the arguments of the call in progress / last made
    result,                  \* what the call returned
    log                      \* what the call in progress / last made did on the way

vars == <<OCR_PERFORMANCE_CONFIG, ocr_cache, world, pc, call, result, log>>

(***************************************************************************)
(* Characters and strings                                                  *)
(***************************************************************************)

\* str.isdigit / the regular expression class \d, on the ASCII digits
Digits == {"0", "1", "2", "3", "4", "5", "6", "7", "8", "9"}

\* int(c) for one decimal digit
DigitValue(c) ==
    CASE c = "0" -> 0 [] c = "1" -> 1 [] c = "2" -> 2 [] c = "3" -> 3
      [] c = "4" -> 4 [] c = "5" -> 5 [] c = "6" -> 6 [] c = "7" -> 7
      [] c = "8" -> 8 [] c = "9" -> 9

\* str.upper() on one character (only x/X matters to the callers modelled)
Upper(c) == IF c = "x" THEN "X" ELSE c

\* s[a:b] of Python with 0-based a, b already clipped to 0..len(s)
Slice(s, a, b) == IF b <= a THEN <<>> ELSE SubSeq(s, a + 1, b)

\* the regular expression class \s (the characters of the model's alphabet it holds)
Whitespace == {" "}

AsciiUpper ==
    {"A", "B", "C", "D", "E", "F", "G", "H", "I", "J", "K", "L", "M",
     "N", "O", "P", "Q", "R", "S", "T", "U", "V", "W", "X", "Y", "Z"}

AsciiLower ==
    {"a", "b", "c", "d", "e", "f", "g", "h", "i", "j", "k", "l", "m",
     "n", "o", "p", "q", "r", "s", "t", "u", "v", "w", "x", "y", "z"}

\* the regular expression class [A-Za-z]
AsciiLetters == AsciiUpper \cup AsciiLower

\* the ideographs of the model's alphabet, the class [\u4e00-\u9fff]:
\* 姓 xing, 名 ming, 性 xingb, 别 bie, 民 min, 族 zu, 出 chu, 生 sheng, 住 zhu, 址 zhi
\* 公 gong, 身 shen, 份 fen, 号 hao, 码 ma, 签 qian, 发 fa, 机 ji, 关 guan, 有 you
\* 效 xiao, 期 qi, 限 xian, 至 zhib, 中 zhong, 华 hua, 人 ren, 共 gongb, 和 he, 国 guo
\* 汉 han, 男 nan, 女 nv, 年 nian, 月 yue, 日 ri, 省 sheng_p, 市 shi, 区 qu, 县 xianb
\* 乡 xiang, 镇 zhen, 村 cun, 组 zub, 路 lu, 街 jie, 道 dao, 室 shib, 栋 dong, 单 dan
\* 元 yuan, 社 she, 队 dui, 巷 xiangb, 弄 nong, 里 li, 证 zheng, 件 jian, 样 yang, 本 ben
\* 籍 jib, 张 zhang, 三 san, 李 lib, 四 si, 北 bei, 京 jing, 海 hai, 淀 dian, 边 bian
\* 庄 zhuang, 太 tai, 平 ping, 回 hui, 蒙 meng, 藏 zang, 维 wei, 苗 miao, 彝 yi, 壮 zhuangb
\* 满 man, 加 jia, 拿 na, 大 da, 美 mei, 英 ying, 管 guanb, 理 lib2, 新 xin, 版 ban
\* 外 wai, 永 yong, 久 jiu, 居 jub, 留 liu, 茹 ru, 王 wang, 局 ju, 移 yib, 第 di, 旧 jiub
CJK ==
    {"xing", "ming", "xingb", "bie", "min", "zu", "chu", "sheng", "zhu", "zhi",
     "gong", "shen", "fen", "hao", "ma", "qian", "fa", "ji", "guan", "you",
     "xiao", "qi", "xian", "zhib", "zhong", "hua", "ren", "gongb", "he", "guo",
     "han", "nan", "nv", "nian", "yue", "ri", "sheng_p", "shi", "qu", "xianb",
     "xiang", "zhen", "cun", "zub", "lu", "jie", "dao", "shib", "dong", "dan",
     "yuan", "she", "dui", "xiangb", "nong", "li", "zheng", "jian", "yang", "ben",
     "jib", "zhang", "san", "lib", "si", "bei", "jing", "hai", "dian", "bian",
     "zhuang", "tai", "ping", "hui", "meng", "zang", "wei", "miao", "yi", "zhuangb",
     "man", "jia", "na", "da", "mei", "ying", "guanb", "lib2", "xin", "ban",
     "wai", "yong", "jiu", "jub", "liu", "ru", "wang", "ju", "yib", "di", "jiub"}

\* the regular expression class \w and str.isalpha, on the model's alphabet
WordChars == AsciiLetters \cup Digits \cup CJK \cup {"_"}

AlphaChars == AsciiLetters \cup CJK

\* str.lstrip() / str.rstrip() / str.strip()
RECURSIVE lstrip(_)
lstrip(t) == IF t # <<>> /\ Head(t) \in Whitespace THEN lstrip(Tail(t)) ELSE t

RECURSIVE rstrip(_)
rstrip(t) ==
    IF t # <<>> /\ t[Len(t)] \in Whitespace THEN rstrip(SubSeq(t, 1, Len(t) - 1)) ELSE t

strip(t) == rstrip(lstrip(t))

\* the Python test "w in t" for strings
Contains(t, w) ==
    \E i \in 1..(Len(t) - Len(w) + 1) : SubSeq(t, i, i + Len(w) - 1) = w

\* every character of t is in the class S
AllIn(t, S) == \A i \in 1..Len(t) : t[i] \in S

(***************************************************************************)
(* Regular expressions as the code uses them (module re): a pattern is a   *)
(* tree, and matching is backtracking in re's order of preference          *)
(***************************************************************************)

\* pattern constructors: [S], [^S], a literal word, ^, $, concatenation,
\* a|b, a?, a*, a+, a{lo,hi} (hi = -1: no upper limit) and a capturing (a)
ReSet(S) == [k |-> "set", s |-> S]
ReNot(S) == [k |-> "nset", s |-> S]
ReLit(w) == [k |-> "lit", w |-> w]
ReBol == [k |-> "bol"]
ReEol == [k |-> "eol"]
ReSeq(a) == [k |-> "seq", a |-> a]
ReAlt(a) == [k |-> "alt", a |-> a]
ReRep(a, lo, hi) == [k |-> "rep", a |-> a, lo |-> lo, hi |-> hi]
ReOpt(a) == ReRep(a, 0, 1)
ReStar(a) == ReRep(a, 0, -1)
RePlus(a) == ReRep(a, 1, -1)
ReGrp(a) == [k |-> "grp", a |-> a]
\* the class . (the alphabet has no line break)
ReAny == ReNot({})
ReDigit == ReSet(Digits)

\* all the ways pattern n matches text t from position i, best first; each is
\* <<position after the match, the groups closed so far as <<from, to>> >>
\* a capturing group that began at position i closes after each match of
\* what it holds
ReMGrp(inner, i) ==
    [j \in 1..Len(inner) |-> <<inner[j][1], Append(inner[j][2], <<i, inner[j][1] - 1>>)>>]

\* most characters of a class taken from position i, with most the length of
\* the run or the upper limit: the longest first, then one less, down to lo
ReMDown(most, lo, i, c) ==
    IF most < lo THEN <<>> ELSE [j \in 1..(most - lo + 1) |-> <<i + most - j + 1, c>>]

\* a run of run characters of a class repeated lo to hi times
ReMRun(run, lo, hi, i, c) == ReMDown(IF hi >= 0 /\ hi < run THEN hi ELSE run, lo, i, c)

RECURSIVE ReM(_, _, _, _)
RECURSIVE ReMSeq(_, _, _, _, _)
RECURSIVE ReMAlt(_, _, _, _, _)
RECURSIVE ReMRep(_, _, _, _, _, _)
RECURSIVE ReMThen(_, _, _, _, _, _)

ReM(n, t, i, c) ==
    CASE n.k = "set" -> IF i <= Len(t) /\ t[i] \in n.s THEN <<<<i + 1, c>>>> ELSE <<>>
      [] n.k = "nset" -> IF i <= Len(t) /\ t[i] \notin n.s THEN <<<<i + 1, c>>>> ELSE <<>>
      [] n.k = "lit" ->
            IF i + Len(n.w) - 1 <= Len(t) /\ SubSeq(t, i, i + Len(n.w) - 1) = n.w
            THEN <<<<i + Len(n.w), c>>>> ELSE <<>>
      [] n.k = "bol" -> IF i = 1 THEN <<<<i, c>>>> ELSE <<>>
      [] n.k = "eol" -> IF i = Len(t) + 1 THEN <<<<i, c>>>> ELSE <<>>
      [] n.k = "seq" -> ReMSeq(n.a, 1, t, i, c)
      [] n.k = "alt" -> ReMAlt(n.a, 1, t, i, c)
      [] n.k = "rep" -> ReMRep(n.a, n.lo, n.hi, t, i, c)
      [] n.k = "grp" -> ReMGrp(ReM(n.a, t, i, c), i)

\* parts[j..] in sequence
ReMSeq(parts, j, t, i, c) ==
    IF j > Len(parts) THEN <<<<i, c>>>>
    ELSE ReMThen(ReM(parts[j], t, i, c), 1, parts, j + 1, t, i)

\* every way first[m..] can be continued by parts[j..]
ReMThen(first, m, parts, j, t, i) ==
    IF m > Len(first) THEN <<>>
    ELSE ReMSeq(parts, j, t, first[m][1], first[m][2])
            \o ReMThen(first, m + 1, parts, j, t, i)

\* the alternatives from left to right
ReMAlt(alts, j, t, i, c) ==
    IF j > Len(alts) THEN <<>>
    ELSE ReM(alts[j], t, i, c) \o ReMAlt(alts, j + 1, t, i, c)

\* the length of the longest run of characters of one class from position i
ReRun(a, t, i) ==
    LET stops == {j \in i..(Len(t) + 1) : j = Len(t) + 1 \/ ReM(a, t, j, <<>>) = <<>>}
    IN  (CHOOSE j \in stops : \A k \in stops : j <= k) - i

\* greedy repetition: one more round first, stopping here last; for a class
\* of single characters that is the longest run first, then one less, down
\* to lo
ReMRep(a, lo, hi, t, i, c) ==
    IF a.k \in {"set", "nset"}
    THEN ReMRun(ReRun(a, t, i), lo, hi, i, c)
    ELSE LET round == IF hi = 0 THEN <<>>
                      ELSE SelectSeq(ReM(a, t, i, c), LAMBDA r : r[1] > i)
             next == ReRep(a, IF lo > 0 THEN lo - 1 ELSE 0, IF hi > 0 THEN hi - 1 ELSE hi)
         IN  ReMThen(round, 1, <<next>>, 1, t, i)
                 \o (IF lo = 0 THEN <<<<i, c>>>> ELSE <<>>)

\* re.match(n, t): the match at the start of t; found = FALSE stands for None
ReNoMatch == [found |-> FALSE]

\* the preferred one of all the matches from position i
ReFirst(all, i) ==
    IF all = <<>> THEN ReNoMatch
    ELSE [found |-> TRUE, start |-> i, end |-> all[1][1], groups |-> all[1][2]]

ReMatchAt(n, t, i) == ReFirst(ReM(n, t, i, <<>>), i)

\* the match m when there is one, else the other
ReOrElse(m, other) == IF m.found THEN m ELSE other

re_match(n, t) == ReMatchAt(n, t, 1)

\* re.search(n, t): the match at the leftmost position that has one
RECURSIVE ReSearchFrom(_, _, _)
ReSearchFrom(n, t, i) ==
    IF i > Len(t) + 1 THEN ReNoMatch
    ELSE ReOrElse(ReMatchAt(n, t, i), ReSearchFrom(n, t, i + 1))

re_search(n, t) == ReSearchFrom(n, t, 1)

\* match.group(0) and match.group(g); match.end()
Group0(m, t) == SubSeq(t, m.start, m.end - 1)
Group(m, t, g) == SubSeq(t, m.groups[g][1], m.groups[g][2])

\* re.sub(n, repl, t) for a pattern that matches no empty string
RECURSIVE ReSubFrom(_, _, _, _)
RECURSIVE ReSubAt(_, _, _, _, _)
ReSubFrom(n, repl, t, i) ==
    IF i > Len(t) THEN <<>> ELSE ReSubAt(n, repl, t, i, ReMatchAt(n, t, i))

\* with m what matches at position i
ReSubAt(n, repl, t, i, m) ==
    IF m.found /\ m.end > i THEN repl \o ReSubFrom(n, repl, t, m.end)
    ELSE <<t[i]>> \o ReSubFrom(n, repl, t, i + 1)

re_sub(n, repl, t) == ReSubFrom(n, repl, t, 1)

(***************************************************************************)
(* validators.py: validate_id_number                                       *)
(***************************************************************************)

\* the 18-character pattern ^[1-9]\d{5}(19|20)\d{2}(0[1-9]|1[0-2])
\* (0[1-9]|[12]\d|3[01])\d{3}(\d|X|x)$ applied with re.match
IdPatternFull(t) ==
    /\ Len(t) = 18
    /\ t[1] \in Digits \ {"0"}
    /\ \A i \in 2..6 : t[i] \in Digits
    /\ \/ t[7] = "1" /\ t[8] = "9"
       \/ t[7] = "2" /\ t[8] = "0"
    /\ t[9] \in Digits /\ t[10] \in Digits
    /\ \/ t[11] = "0" /\ t[12] \in Digits \ {"0"}
       \/ t[11] = "1" /\ t[12] \in {"0", "1", "2"}
    /\ \/ t[13] = "0" /\ t[14] \in Digits \ {"0"}
       \/ t[13] \in {"1", "2"} /\ t[14] \in Digits
       \/ t[13] = "3" /\ t[14] \in {"0", "1"}
    /\ \A i \in 15..17 : t[i] \in Digits
    /\ t[18] \in Digits \cup {"X", "x"}

factors == <<7, 9, 10, 5, 8, 4, 2, 1, 6, 3, 7, 9, 10, 5, 8, 4, 2>>

checksum_map == <<"1", "0", "X", "9", "8", "7", "6", "5", "4", "3", "2">>

\* the loop "for i in range(17): checksum += int(id_number[i]) * factors[i]"
RECURSIVE checksum_loop(_, _)
checksum_loop(id_number, i) ==
    IF i = 0 THEN 0
    ELSE checksum_loop(id_number, i - 1) + DigitValue(id_number[i]) * factors[i]

\* mutant: the format check alone, the check character never compared
validate_id_number_format_only(id_number) ==
    /\ id_number # <<>>
    /\ IdPatternFull(id_number)

validate_id_number(id_number) ==
    IF id_number = <<>> THEN FALSE
    ELSE IF ~IdPatternFull(id_number) THEN FALSE
    ELSE LET checksum == checksum_loop(id_number, 17)
             check_digit == checksum_map[(checksum % 11) + 1]
         IN  Upper(check_digit) = Upper(id_number[18])

(***************************************************************************)
(* ocr_engine.py: _is_valid_address_text                                   *)
(***************************************************************************)

\* ^[1-9]\d{5}(?:19|20)\d{2}(?:0[1-9]|1[0-2])(?:0[1-9]|[12]\d|3[01])\d{3}(?:\d|X|x)$
\* applied with re.match: the whole text is one 18-character ID number
IsIdNumberText(text) ==
    /\ Len(text) = 18
    /\ text[1] \in Digits \ {"0"}
    /\ AllIn(SubSeq(text, 2, 6), Digits)
    /\ SubSeq(text, 7, 8) \in {<<"1", "9">>, <<"2", "0">>}
    /\ AllIn(SubSeq(text, 9, 10), Digits)
    /\ \/ text[11] = "0" /\ text[12] \in Digits \ {"0"}
       \/ text[11] = "1" /\ text[12] \in {"0", "1", "2"}
    /\ \/ text[13] = "0" /\ text[14] \in Digits \ {"0"}
       \/ text[13] \in {"1", "2"} /\ text[14] \in Digits
       \/ text[13] = "3" /\ text[14] \in {"0", "1"}
    /\ AllIn(SubSeq(text, 15, 17), Digits)
    /\ text[18] \in Digits \cup {"X", "x"}

\* the keyword list of exclusion 5
BirthAddrKeywords ==
    {<<"sheng_p">>, <<"shi">>, <<"qu">>, <<"xianb">>, <<"xiang">>, <<"zhen">>, <<"cun">>,
     <<"zub">>, <<"lu">>, <<"jie">>, <<"dao">>, <<"hao">>, <<"shib">>, <<"dong">>,
     <<"dan", "yuan">>}

\* the tokens of exclusion 6
PersonalTokens ==
    {<<"nan">>, <<"nv">>, <<"han">>, <<"hui">>, <<"meng">>, <<"zang">>, <<"wei">>,
     <<"miao">>, <<"yi">>, <<"zhuangb">>, <<"man">>}

\* the character class address_keywords
AddressKeywordChars ==
    {"sheng_p", "shi", "qu", "xianb", "xiang", "zhen", "cun", "zub", "lu", "jie", "dao",
     "hao", "shib", "she", "dui", "dong", "dan", "yuan", "xiangb", "nong", "li"}

\* ^\d{1,4}号?[A-Za-z]?$ together with len(text) <= 6
IsHouseNumberShape(text) ==
    /\ Len(text) <= 6
    /\ \E n \in 1..4, h \in {0, 1}, l \in {0, 1} :
        /\ Len(text) = n + h + l
        /\ AllIn(SubSeq(text, 1, n), Digits)
        /\ h = 1 => text[n + 1] = "hao"
        /\ l = 1 => text[n + h + 1] \in AsciiLetters

\* exclusions 1 to 6 (lines 1043-1066): some exclusion rejects the stripped text
AddressTextExcluded(text) ==
    \/ (Len(text) = 15 /\ AllIn(text, Digits)) \/ IsIdNumberText(text)
    \/ (Len(text) >= 10 /\ AllIn(text, Digits))
    \/ Contains(text, <<"gong", "min", "shen", "fen", "hao", "ma">>)
    \/ Contains(text, <<"shen", "fen", "hao", "ma">>)
    \/ (Len(text) = 4 /\ SubSeq(text, 1, 2) \in {<<"1", "9">>, <<"2", "0">>}
           /\ AllIn(SubSeq(text, 3, 4), Digits))
    \/ /\ Contains(text, <<"chu", "sheng">>) \/ Contains(text, <<"sheng", "ri">>)
       /\ ~\E k \in BirthAddrKeywords : Contains(text, k)
    \/ text \in PersonalTokens

\* the inclusion tests (lines 1068-1075)
AddressTextIncluded(text) ==
    \/ \E i \in 1..Len(text) : text[i] \in AddressKeywordChars
    \/ IsHouseNumberShape(text)

\* mutant: the inclusion tests run first, the exclusions only afterwards
is_valid_address_text_inclusion_first(text0) ==
    LET text == strip(text0)
    IN  IF AddressTextIncluded(text) THEN TRUE
        ELSE FALSE

is_valid_address_text(text0) ==
    LET text == strip(text0)
    IN  IF AddressTextExcluded(text) THEN FALSE
        ELSE IF AddressTextIncluded(text) THEN TRUE
        ELSE FALSE

(***************************************************************************)
(* ocr_engine.py: detect_card_type                                         *)
(***************************************************************************)

\* sep.join(texts)
RECURSIVE Join(_, _)
Join(texts, sep) ==
    IF texts = <<>> THEN <<>>
    ELSE IF Len(texts) = 1 THEN texts[1]
    ELSE texts[1] \o sep \o Join(Tail(texts), sep)

\* [block["text"] for block in text_blocks]
BlockTexts(text_blocks) == [i \in 1..Len(text_blocks) |-> text_blocks[i].text]

\* 姓名/Name Name 性别/Sex Sex 国籍/Nationality Nationality Period Validity ZHENGJIAN
\* YANGBEN 证件样本 DateofBirth Date.of Birth PeriodofValidity IDNO CardNo
\* ImmigrationAdministration ssuingAuthority
foreign_keywords ==
    <<<<"xing","ming","/","N","a","m","e">>,
      <<"N","a","m","e">>,
      <<"xingb","bie","/","S","e","x">>,
      <<"S","e","x">>,
      <<"guo","jib","/","N","a","t","i","o","n","a","l","i","t","y">>,
      <<"N","a","t","i","o","n","a","l","i","t","y">>,
      <<"P","e","r","i","o","d">>,
      <<"V","a","l","i","d","i","t","y">>,
      <<"Z","H","E","N","G","J","I","A","N">>,
      <<"Y","A","N","G","B","E","N">>,
      <<"zheng","jian","yang","ben">>,
      <<"D","a","t","e","o","f","B","i","r","t","h">>,
      <<"D","a","t","e",".","o","f"," ","B","i","r","t","h">>,
      <<"P","e","r","i","o","d","o","f","V","a","l","i","d","i","t","y">>,
      <<"I","D","N","O">>,
      <<"C","a","r","d","N","o">>,
      <<"I","m","m","i","g","r","a","t","i","o","n","A","d","m","i","n","i","s","t","r","a","t","i","o","n">>,
      <<"s","s","u","i","n","g","A","u","t","h","o","r","i","t","y">>>>

\* 汉族 民族 住址 签发机关 有效期限
chinese_keywords ==
    <<<<"han","zu">>,
      <<"min","zu">>,
      <<"zhu","zhi">>,
      <<"qian","fa","ji","guan">>,
      <<"you","xiao","qi","xian">>>>

\* the list of the second disjunct of line 275: 住址 签发机关 有效期限
chinese_fallback_keywords ==
    <<<<"zhu","zhi">>,
      <<"qian","fa","ji","guan">>,
      <<"you","xiao","qi","xian">>>>

\* 姓名/Name 国籍/Nationality IDNO
new_version_indicators ==
    <<<<"xing","ming","/","N","a","m","e">>,
      <<"guo","jib","/","N","a","t","i","o","n","a","l","i","t","y">>,
      <<"I","D","N","O">>>>

\* Date.of Birth CardNo ImmigrationAdministration
old_version_indicators ==
    <<<<"D","a","t","e",".","o","f"," ","B","i","r","t","h">>,
      <<"C","a","r","d","N","o">>,
      <<"I","m","m","i","g","r","a","t","i","o","n","A","d","m","i","n","i","s","t","r","a","t","i","o","n">>>>

\* 姓名 性别 民族 出生 住址 公民身份号码
front_indicators ==
    <<<<"xing","ming">>,
      <<"xingb","bie">>,
      <<"min","zu">>,
      <<"chu","sheng">>,
      <<"zhu","zhi">>,
      <<"gong","min","shen","fen","hao","ma">>>>

\* 签发机关 有效期限 中华人民共和国
back_indicators ==
    <<<<"qian","fa","ji","guan">>,
      <<"you","xiao","qi","xian">>,
      <<"zhong","hua","ren","min","gongb","he","guo">>>>

\* sum(1 for keyword in keywords if keyword in combined_text), as the loops count it
RECURSIVE KeywordScore(_, _)
KeywordScore(keywords, combined_text) ==
    IF keywords = <<>> THEN 0
    ELSE (IF Contains(combined_text, Head(keywords)) THEN 1 ELSE 0)
            + KeywordScore(Tail(keywords), combined_text)

\* mutant: a tie between the version scores (and between the side scores) goes
\* to the other alternative, ">" written for ">="
detect_card_type_strict_ties(text_blocks) ==
    LET combined_text == Join(BlockTexts(text_blocks), <<" ">>)
        foreign_score == KeywordScore(foreign_keywords, combined_text)
        chinese_score == KeywordScore(chinese_keywords, combined_text)
    IN  IF foreign_score >= 2
        THEN IF KeywordScore(new_version_indicators, combined_text)
                    > KeywordScore(old_version_indicators, combined_text)
             THEN <<"foreign_new", TRUE>>
             ELSE <<"foreign_old", TRUE>>
        ELSE IF chinese_score > 0
                  \/ KeywordScore(chinese_fallback_keywords, combined_text) > 0
        THEN <<"chinese", KeywordScore(front_indicators, combined_text)
                            > KeywordScore(back_indicators, combined_text)>>
        ELSE <<"chinese", TRUE>>

\* returns <<card_type, is_front>>
detect_card_type(text_blocks) ==
    LET combined_text == Join(BlockTexts(text_blocks), <<" ">>)
        foreign_score == KeywordScore(foreign_keywords, combined_text)
        chinese_score == KeywordScore(chinese_keywords, combined_text)
    IN  IF foreign_score >= 2
        THEN LET new_score == KeywordScore(new_version_indicators, combined_text)
                 old_score == KeywordScore(old_version_indicators, combined_text)
             IN  IF new_score >= old_score
                 THEN <<"foreign_new", TRUE>>
                 ELSE <<"foreign_old", TRUE>>
        ELSE IF chinese_score > 0
                  \/ KeywordScore(chinese_fallback_keywords, combined_text) > 0
        THEN LET front_score == KeywordScore(front_indicators, combined_text)
                 back_score == KeywordScore(back_indicators, combined_text)
             IN  <<"chinese", front_score >= back_score>>
        ELSE <<"chinese", TRUE>>

(***************************************************************************)
(* ocr_engine.py: the text blocks built from the OCR output                *)
(***************************************************************************)

\* sum(point[k] for point in coords)
RECURSIVE SumCoord(_, _)
SumCoord(coords, k) ==
    IF coords = <<>> THEN 0 ELSE Head(coords)[k] + SumCoord(Tail(coords), k)

\* one text block.  center is kept in quarter pixels, (sum x, sum y) for
\* (sum x / 4, sum y / 4), so that it stays an integer; every distance
\* threshold compared with it below is written as 4 * its value in the code
TextBlock(item) ==
    [text |-> item[2][1], confidence |-> item[2][2],
     center |-> <<SumCoord(item[1], 1), SumCoord(item[1], 2)>>, coords |-> item[1]]

\* "coords, (text, confidence) = item" raises ValueError unless the entry
\* has exactly two members, the second a pair
UnpackRaises(item) == Len(item) >= 2 /\ (Len(item) # 2 \/ Len(item[2]) # 2)

\* the loop over ocr_result: entries shorter than 2 are passed over, the
\* first entry that cannot be unpacked raises
BuildTextBlocks(ocr_result) ==
    IF \E i \in 1..Len(ocr_result) : UnpackRaises(ocr_result[i])
    THEN [raised |-> TRUE, exception |-> "ValueError"]
    ELSE LET kept == SelectSeq(ocr_result, LAMBDA item : Len(item) >= 2)
         IN  [raised |-> FALSE, text_blocks |-> [i \in 1..Len(kept) |-> TextBlock(kept[i])]]

\* abs()
Abs(x) == IF x < 0 THEN -x ELSE x

\* a Python dict: setting a key, and the empty dict
Put(d, key, value) == [x \in DOMAIN d \cup {key} |-> IF x = key THEN value ELSE d[x]]
EmptyDict == <<>>

(***************************************************************************)
(* ocr_engine.py: _extract_id_number                                       *)
(***************************************************************************)

\* r'[1-9]\d{5}(?:19|20)\d{2}(?:0[1-9]|1[0-2])(?:0[1-9]|[12]\d|3[01])\d{3}(?:\d|X|x)'
id_pattern ==
    ReSeq(<<ReSet((Digits \ {"0"})), ReRep(ReDigit, 5, 5), ReAlt(<<ReLit(<<"1", "9">>),
        ReLit(<<"2", "0">>)>>), ReRep(ReDigit, 2, 2), ReAlt(<<ReSeq(<<ReLit(<<"0">>),
        ReSet((Digits \ {"0"}))>>), ReSeq(<<ReLit(<<"1">>), ReSet({"0","1","2"})>>)>>),
        ReAlt(<<ReSeq(<<ReLit(<<"0">>), ReSet((Digits \ {"0"}))>>), ReSeq(<<ReSet({"1",
        "2"}), ReDigit>>), ReSeq(<<ReLit(<<"3">>), ReSet({"0", "1"})>>)>>),
        ReRep(ReDigit, 3, 3), ReSet(Digits \cup {"X", "x"})>>)

\* an Optional[str]: None is the empty tuple, a string s the tuple <<s>>
None == <<>>
Some(s) == <<s>>
IsNone(v) == v = <<>>

\* the inner loop of the label search: the first other block within 50 pixels
\* (vertically) of the label block that holds an ID number
RECURSIVE IdNumberNear(_, _, _)
IdNumberNear(text_blocks, block, j) ==
    IF j > Len(text_blocks) THEN None
    ELSE LET other_block == text_blocks[j]
             match == re_search(id_pattern, strip(other_block.text))
         IN  IF other_block # block
                /\ Abs(other_block.center[2] - block.center[2]) < 4 * 50
                /\ match.found
             THEN Some(Group0(match, strip(other_block.text)))
             ELSE IdNumberNear(text_blocks, block, j + 1)

\* the first loop: blocks that contain the label 公民身份号码
RECURSIVE IdNumberByLabel(_, _)
IdNumberByLabel(text_blocks, i) ==
    IF i > Len(text_blocks) THEN None
    ELSE LET block == text_blocks[i]
             text == strip(block.text)
             match == re_search(id_pattern, text)
             near == IdNumberNear(text_blocks, block, 1)
         IN  IF ~Contains(text, <<"gong", "min", "shen", "fen", "hao", "ma">>)
             THEN IdNumberByLabel(text_blocks, i + 1)
             ELSE IF match.found THEN Some(Group0(match, text))
             ELSE IF ~IsNone(near) THEN near
             ELSE IdNumberByLabel(text_blocks, i + 1)

\* the second loop: the first block, in order, that holds an ID number
RECURSIVE IdNumberAnywhere(_, _)
IdNumberAnywhere(text_blocks, i) ==
    IF i > Len(text_blocks) THEN None
    ELSE LET text == strip(text_blocks[i].text)
             match == re_search(id_pattern, text)
         IN  IF match.found THEN Some(Group0(match, text))
             ELSE IdNumberAnywhere(text_blocks, i + 1)

extract_id_number(text_blocks) ==
    LET labelled == IdNumberByLabel(text_blocks, 1)
    IN  IF ~IsNone(labelled) THEN labelled ELSE IdNumberAnywhere(text_blocks, 1)

(***************************************************************************)
(* ocr_engine.py: _is_valid_name, _extract_name_smart                      *)
(***************************************************************************)

\* exclude_words: 性别 民族 出生 住址 公民 身份 号码 签发 机关 有效 期限
name_exclude_words ==
    <<<<"xingb","bie">>,
      <<"min","zu">>,
      <<"chu","sheng">>,
      <<"zhu","zhi">>,
      <<"gong","min">>,
      <<"shen","fen">>,
      <<"hao","ma">>,
      <<"qian","fa">>,
      <<"ji","guan">>,
      <<"you","xiao">>,
      <<"qi","xian">>>>

\* how many characters of text are in the class S
CountIn(text, S) == Cardinality({i \in 1..Len(text) : text[i] \in S})

is_valid_name(text) ==
    IF text = <<>> \/ Len(text) < 2 \/ Len(text) > 5 THEN FALSE
    \* chinese_chars < len(text) * 0.8
    ELSE IF 10 * CountIn(text, CJK) < 8 * Len(text) THEN FALSE
    ELSE IF \E w \in 1..Len(name_exclude_words) : Contains(text, name_exclude_words[w])
    THEN FALSE
    ELSE TRUE

\* r'姓名[\s:：]*(.+)'
name_inline_pattern ==
    ReSeq(<<ReLit(<<"xing", "ming">>), ReStar(ReSet(Whitespace \cup {":", "fcolon"})),
        ReGrp(RePlus(ReAny))>>)

\* 性别 民族 出生 住址 公民身份号码
name_skip_labels ==
    <<<<"xingb","bie">>,
      <<"min","zu">>,
      <<"chu","sheng">>,
      <<"zhu","zhi">>,
      <<"gong","min","shen","fen","hao","ma">>>>

\* 性别 民族 出生 住址 公民 身份 号码
name_fallback_labels ==
    <<<<"xingb","bie">>,
      <<"min","zu">>,
      <<"chu","sheng">>,
      <<"zhu","zhi">>,
      <<"gong","min">>,
      <<"shen","fen">>,
      <<"hao","ma">>>>

\* w in words, for a list of strings
InList(w, words) == \E i \in 1..Len(words) : words[i] = w

\* method 1: the first block with label and name together, name at most 10 long
RECURSIVE NameInline(_, _)
NameInline(text_blocks, i) ==
    IF i > Len(text_blocks) THEN None
    ELSE LET text == strip(text_blocks[i].text)
             match == re_search(name_inline_pattern, text)
             name == strip(Group(match, text, 1))
         IN  IF match.found /\ name # <<>> /\ Len(name) <= 10 THEN Some(name)
             ELSE NameInline(text_blocks, i + 1)

\* the first block that contains 姓名 (0: there is none)
RECURSIVE NameLabelIndex(_, _)
NameLabelIndex(text_blocks, i) ==
    IF i > Len(text_blocks) THEN 0
    ELSE IF Contains(strip(text_blocks[i].text), <<"xing", "ming">>) THEN i
    ELSE NameLabelIndex(text_blocks, i + 1)

\* the square of the distance between two centres (16 times the code's square)
Distance2(a, b) == (a[1] - b[1]) * (a[1] - b[1]) + (a[2] - b[2]) * (a[2] - b[2])

\* method 2: the candidates, in block order, as indices into text_blocks
NameCandidates(text_blocks, name_label_block) ==
    SelectSeq([i \in 1..Len(text_blocks) |-> i],
              LAMBDA i :
                LET block == text_blocks[i]
                    text == strip(block.text)
                IN  /\ block # name_label_block
                    /\ ~InList(text, name_skip_labels)
                    /\ Len(text) <= 10
                    /\ is_valid_name(text))

\* the candidate that comes first in block order, whatever its distance
ClosestCandidate_first_in_order(text_blocks, name_label_block, candidates) ==
    Some(strip(text_blocks[candidates[1]].text))

\* candidate_blocks.sort(key=distance) is stable: of the nearest candidates
\* the one that comes first in block order is candidate_blocks[0]
ClosestCandidate(text_blocks, name_label_block, candidates) ==
    LET d(i) == Distance2(text_blocks[i].center, name_label_block.center)
        best == CHOOSE m \in 1..Len(candidates) :
                    /\ \A n \in 1..Len(candidates) : d(candidates[m]) <= d(candidates[n])
                    /\ \A n \in 1..(m - 1) : d(candidates[n]) > d(candidates[m])
    IN  Some(strip(text_blocks[candidates[best]].text))

\* method 3: the first block whose text has the format of a name
RECURSIVE NameByFormat(_, _)
NameByFormat(text_blocks, i) ==
    IF i > Len(text_blocks) THEN None
    ELSE LET text == strip(text_blocks[i].text)
         IN  IF /\ is_valid_name(text) /\ Len(text) >= 2 /\ Len(text) <= 5
                /\ ~InList(text, name_fallback_labels)
             THEN Some(text)
             ELSE NameByFormat(text_blocks, i + 1)

extract_name_smart(text_blocks) ==
    LET inline == NameInline(text_blocks, 1)
        label == NameLabelIndex(text_blocks, 1)
        candidates == NameCandidates(text_blocks, text_blocks[label])
    IN  IF ~IsNone(inline) THEN inline
        ELSE IF label # 0 /\ candidates # <<>>
        THEN ClosestCandidate(text_blocks, text_blocks[label], candidates)
        ELSE NameByFormat(text_blocks, 1)

(***************************************************************************)
(* ocr_engine.py: extract_id_card_info, the front of the national card     *)
(***************************************************************************)

\* r'^[1-9]\d{5}(?:19|20)\d{2}(?:0[1-9]|1[0-2])(?:0[1-9]|[12]\d|3[01])\d{3}(?:\d|X|x)$', the whole-text test for an ID number
id_number_text_pattern ==
    ReSeq(<<ReBol, ReSet((Digits \ {"0"})), ReRep(ReDigit, 5, 5), ReAlt(<<ReLit(<<"1",
        "9">>), ReLit(<<"2", "0">>)>>), ReRep(ReDigit, 2, 2),
        ReAlt(<<ReSeq(<<ReLit(<<"0">>), ReSet((Digits \ {"0"}))>>),
        ReSeq(<<ReLit(<<"1">>), ReSet({"0","1","2"})>>)>>),
        ReAlt(<<ReSeq(<<ReLit(<<"0">>), ReSet((Digits \ {"0"}))>>), ReSeq(<<ReSet({"1",
        "2"}), ReDigit>>), ReSeq(<<ReLit(<<"3">>), ReSet({"0", "1"})>>)>>),
        ReRep(ReDigit, 3, 3), ReSet(Digits \cup {"X", "x"}), ReEol>>)

\* re.match of that pattern
is_id_number_text(text) == re_match(id_number_text_pattern, text).found

\* field_patterns, in the order of the dict: 性别, 民族, 出生
\*   r'性别[\s:：]*([男女])'
\*   r'民族[\s:：]*(.+)'
\*   r'出生[\s:：]*(.+)'
field_patterns ==
    <<
      ReSeq(<<ReLit(<<"xingb", "bie">>), ReStar(ReSet(Whitespace \cup {":",
          "fcolon"})), ReGrp(ReSet({"nan", "nv"}))>>),
      ReSeq(<<ReLit(<<"min", "zu">>), ReStar(ReSet(Whitespace \cup {":", "fcolon"})),
          ReGrp(RePlus(ReAny))>>),
      ReSeq(<<ReLit(<<"chu", "sheng">>), ReStar(ReSet(Whitespace \cup {":",
          "fcolon"})), ReGrp(RePlus(ReAny))>>)
    >>

\* ID_CARD_FIELD_MAPPING.get(field, field) for the three fields of field_patterns
field_keys == <<"sex", "nation", "birth">>

\* r'性别[\s:：]*([男女])'
sex_pattern ==
    ReSeq(<<ReLit(<<"xingb", "bie">>), ReStar(ReSet(Whitespace \cup {":", "fcolon"})),
        ReGrp(ReSet({"nan", "nv"}))>>)

\* r'民族[\s:：]*([^\s]+)'
nation_pattern ==
    ReSeq(<<ReLit(<<"min", "zu">>), ReStar(ReSet(Whitespace \cup {":", "fcolon"})),
        ReGrp(RePlus(ReNot(Whitespace)))>>)

\* r'性别([男女])民族([^\s]+)'
sex_nation_pattern ==
    ReSeq(<<ReLit(<<"xingb", "bie">>), ReGrp(ReSet({"nan", "nv"})), ReLit(<<"min",
        "zu">>), ReGrp(RePlus(ReNot(Whitespace)))>>)

\* date_patterns
\*   r'(\d{4}年\d{1,2}月\d{1,2}日)'
\*   r'(\d{4}[\./\-年]\d{1,2}[\./\-月]\d{1,2}[日]?)'
\*   r'(\d{4}[年\s]+\d{1,2}[月\s]+\d{1,2}[日]?)'
date_patterns ==
    <<
      ReGrp(ReSeq(<<ReRep(ReDigit, 4, 4), ReLit(<<"nian">>), ReRep(ReDigit, 1, 2),
          ReLit(<<"yue">>), ReRep(ReDigit, 1, 2), ReLit(<<"ri">>)>>)),
      ReGrp(ReSeq(<<ReRep(ReDigit, 4, 4), ReSet({".", "/", "-", "nian"}),
          ReRep(ReDigit, 1, 2), ReSet({".", "/", "-", "yue"}), ReRep(ReDigit, 1, 2),
          ReOpt(ReLit(<<"ri">>))>>)),
      ReGrp(ReSeq(<<ReRep(ReDigit, 4, 4), RePlus(ReSet(Whitespace \cup {"nian"})),
          ReRep(ReDigit, 1, 2), RePlus(ReSet(Whitespace \cup {"yue"})), ReRep(ReDigit,
          1, 2), ReOpt(ReLit(<<"ri">>))>>))
    >>

XingBie == <<"xingb", "bie">>
MinZu == <<"min", "zu">>
ChuSheng == <<"chu", "sheng">>
ZhuZhi == <<"zhu", "zhi">>

\* the first pattern of a list that re.search finds in text (0: none does)
RECURSIVE FirstPattern(_, _, _)
FirstPattern(patterns, text, j) ==
    IF j > Len(patterns) THEN 0
    ELSE IF re_search(patterns[j], text).found THEN j
    ELSE FirstPattern(patterns, text, j + 1)

\* group(1).strip() of the j-th pattern of a list
FieldValue(patterns, text, j) == strip(Group(re_search(patterns[j], text), text, 1))

\* the loop "for field, pattern in field_patterns.items()" with its break
FrontFields(info, text) ==
    LET j == FirstPattern(field_patterns, text, 1)
    IN  IF j = 0 THEN info ELSE Put(info, field_keys[j], FieldValue(field_patterns, text, j))

\* sex and nation on one line, lines 432-440
FrontSameLine(info, text) ==
    IF ~(Contains(text, XingBie) /\ Contains(text, MinZu)) THEN info
    ELSE LET sex_match == re_search(sex_pattern, text)
             nation_match == re_search(nation_pattern, text)
             info1 == IF sex_match.found
                      THEN Put(info, "sex", strip(Group(sex_match, text, 1))) ELSE info
         IN  IF nation_match.found
             THEN Put(info1, "nation", strip(Group(nation_match, text, 1))) ELSE info1

\* the format 性别男民族汉, lines 443-449
FrontCombined(info, text) ==
    LET combined_match == re_search(sex_nation_pattern, text)
    IN  IF Contains(text, XingBie) /\ Contains(text, MinZu) /\ "sex" \notin DOMAIN info
           /\ combined_match.found
        THEN Put(Put(info, "sex", strip(Group(combined_match, text, 1))),
                 "nation", strip(Group(combined_match, text, 2)))
        ELSE info

\* a block after the first address block continues the address, lines 460-475
ContinuesAddress(address_blocks, block, text) ==
    LET last_block == address_blocks[Len(address_blocks)]
        y_diff == Abs(block.center[2] - last_block.center[2])
        x_pos == block.center[1]
    IN  /\ y_diff < 4 * 70 \/ (y_diff < 4 * 120 /\ x_pos > 4 * 50)
        /\ is_valid_address_text(text)

\* the birth date looked for in a block that contains 出生, lines 478-490
FrontBirth(info, text) ==
    LET j == FirstPattern(date_patterns, text, 1)
    IN  IF Contains(text, ChuSheng) /\ "birth" \notin DOMAIN info /\ j # 0
        THEN Put(info, "birth", FieldValue(date_patterns, text, j))
        ELSE info

\* one round of the loop over text_blocks, lines 415-490; st holds
\* id_card_info and address_blocks.  (birth_blocks is only ever appended to.)
FrontBlock(st, block) ==
    LET text == strip(block.text)
        info == FrontCombined(FrontSameLine(FrontFields(st.id_card_info, text), text), text)
    IN  IF Contains(text, ZhuZhi)
        THEN [id_card_info |-> FrontBirth(info, text),
              address_blocks |-> Append(st.address_blocks, block)]
        ELSE IF st.address_blocks = <<>>
        THEN [id_card_info |-> FrontBirth(info, text), address_blocks |-> st.address_blocks]
        \* "continue": an ID number after the address label ends the round here
        ELSE IF is_id_number_text(text)
        THEN [id_card_info |-> info, address_blocks |-> st.address_blocks]
        ELSE [id_card_info |-> FrontBirth(info, text),
              address_blocks |-> IF ContinuesAddress(st.address_blocks, block, text)
                                 THEN Append(st.address_blocks, block)
                                 ELSE st.address_blocks]

RECURSIVE FrontLoop(_, _, _)
FrontLoop(st, text_blocks, i) ==
    IF i > Len(text_blocks) THEN st
    ELSE FrontLoop(FrontBlock(st, text_blocks[i]), text_blocks, i + 1)

\* f"{int(s)}" for a string of two digits
IntText2(s) == IF s[1] = "0" THEN <<s[2]>> ELSE s

\* r'^\d{17}[\dXx]$'
id_digits_pattern ==
    ReSeq(<<ReBol, ReRep(ReDigit, 17, 17), ReSet(Digits \cup {"X", "x"}), ReEol>>)

\* the birth date written with the month and day as the ID number holds them
BirthFromIdNumber_keeps_zeros(info) ==
    IF "birth" \notin DOMAIN info /\ "id_number" \in DOMAIN info
    THEN Put(info, "birth",
             Slice(info["id_number"], 6, 10) \o <<"nian">> \o Slice(info["id_number"], 10, 12)
               \o <<"yue">> \o Slice(info["id_number"], 12, 14) \o <<"ri">>)
    ELSE info

\* the birth date taken from the ID number when no block gave one, lines 493-501
BirthFromIdNumber(info) ==
    IF "birth" \notin DOMAIN info /\ "id_number" \in DOMAIN info
    THEN LET id_num == info["id_number"]
         IN  IF Len(id_num) = 18 /\ re_match(id_digits_pattern, id_num).found
             THEN Put(info, "birth",
                      Slice(id_num, 6, 10) \o <<"nian">> \o IntText2(Slice(id_num, 10, 12))
                        \o <<"yue">> \o IntText2(Slice(id_num, 12, 14)) \o <<"ri">>)
             ELSE info
    ELSE info

\* the sort key (center y, center x) compared as Python compares tuples
KeyLessEq(a, b) ==
    \/ a.center[2] < b.center[2]
    \/ a.center[2] = b.center[2] /\ a.center[1] <= b.center[1]

\* list.sort(key=...) is stable: each block goes behind the blocks whose key
\* is not greater
RECURSIVE InsertSorted(_, _)
InsertSorted(sorted, block) ==
    IF sorted = <<>> THEN <<block>>
    ELSE IF KeyLessEq(sorted[Len(sorted)], block) THEN Append(sorted, block)
    ELSE Append(InsertSorted(SubSeq(sorted, 1, Len(sorted) - 1), block), sorted[Len(sorted)])

RECURSIVE SortBlocks(_)
SortBlocks(blocks) ==
    IF blocks = <<>> THEN <<>>
    ELSE InsertSorted(SortBlocks(SubSeq(blocks, 1, Len(blocks) - 1)), blocks[Len(blocks)])

\* r'住址[\s:：]*'
address_label_pattern ==
    ReSeq(<<ReLit(<<"zhu", "zhi">>), ReStar(ReSet(Whitespace \cup {":", "fcolon"}))>>)

\* r'\s+'
spaces_pattern ==
    RePlus(ReSet(Whitespace))

\* r'[,，.。、；;]$'
trailing_mark_pattern ==
    ReSeq(<<ReSet({",", "fcomma", ".", "fstop", "dun", "fsemi", ";"}), ReEol>>)

\* the house-number formats of lines 562-567
\*   r'^\d+号?$'
\*   r'^[0-9-]+号?$'
\*   r'^\d+[号室栋单元]$'
\*   r'^\d+[A-Za-z]号?$'
\*   r'^[村组社区队]\d+号?$'
\*   r'.*[村组社区队]\d+号?$'
house_number_block_patterns ==
    <<
      ReSeq(<<ReBol, RePlus(ReDigit), ReOpt(ReLit(<<"hao">>)), ReEol>>),
      ReSeq(<<ReBol, RePlus(ReSet(Digits \cup {"-"})), ReOpt(ReLit(<<"hao">>)),
          ReEol>>),
      ReSeq(<<ReBol, RePlus(ReDigit), ReSet({"hao", "shib", "dong", "dan", "yuan"}),
          ReEol>>),
      ReSeq(<<ReBol, RePlus(ReDigit), ReSet(AsciiLetters), ReOpt(ReLit(<<"hao">>)),
          ReEol>>),
      ReSeq(<<ReBol, ReSet({"cun", "zub", "she", "qu", "dui"}), RePlus(ReDigit),
          ReOpt(ReLit(<<"hao">>)), ReEol>>),
      ReSeq(<<ReStar(ReAny), ReSet({"cun", "zub", "she", "qu", "dui"}),
          RePlus(ReDigit), ReOpt(ReLit(<<"hao">>)), ReEol>>)
    >>

\* r'\d'
digit_pattern ==
    ReDigit

\* r'\d+'
digits_pattern ==
    RePlus(ReDigit)

\* the part of one address block that goes into the address, lines 514-533
\* (<<>>: nothing does)
AddressPart(block) ==
    LET stripped == strip(block.text)
        text == IF Contains(stripped, ZhuZhi)
                THEN re_sub(address_label_pattern, <<>>, stripped) ELSE stripped
    IN  IF text # <<>> /\ is_valid_address_text(text) /\ ~is_id_number_text(text)
        THEN text ELSE <<>>

\* "".join(address_parts)
RECURSIVE JoinParts(_)
JoinParts(blocks) ==
    IF blocks = <<>> THEN <<>> ELSE AddressPart(Head(blocks)) \o JoinParts(Tail(blocks))

\* lines 538-547: join, strip, delete blanks, delete one trailing mark
MergedAddress(address_blocks) ==
    re_sub(trailing_mark_pattern, <<>>,
           re_sub(spaces_pattern, <<>>, strip(JoinParts(address_blocks))))

\* text.endswith(suffix)
EndsWith(text, suffix) ==
    Len(suffix) <= Len(text) /\ SubSeq(text, Len(text) - Len(suffix) + 1, Len(text)) = suffix

\* re.match with any pattern of a list
MatchesAny(patterns, text) == \E j \in 1..Len(patterns) : re_match(patterns[j], text).found

\* the search for a house-number block without the tests for ID numbers and
\* for the length of the text
RECURSIVE HouseNumberBlock_any_length(_, _, _)
HouseNumberBlock_any_length(text_blocks, address_blocks, i) ==
    IF i > Len(text_blocks) THEN 0
    ELSE IF /\ \A k \in 1..Len(address_blocks) : address_blocks[k] # text_blocks[i]
            /\ MatchesAny(house_number_block_patterns, strip(text_blocks[i].text))
            /\ Abs(text_blocks[i].center[2] - address_blocks[Len(address_blocks)].center[2])
                    < 4 * 120
    THEN i
    ELSE HouseNumberBlock_any_length(text_blocks, address_blocks, i + 1)

\* lines 550-582: the first block outside address_blocks that has a
\* house-number format and lies within 120 pixels of the last address block
\* (0: there is none)
RECURSIVE HouseNumberBlock(_, _, _)
HouseNumberBlock(text_blocks, address_blocks, i) ==
    IF i > Len(text_blocks) THEN 0
    ELSE LET block == text_blocks[i]
             text == strip(block.text)
             last_block == address_blocks[Len(address_blocks)]
         IN  IF /\ \A k \in 1..Len(address_blocks) : address_blocks[k] # block
                /\ ~is_id_number_text(text)
                /\ MatchesAny(house_number_block_patterns, text)
                /\ Len(text) < 15
                /\ Abs(block.center[2] - last_block.center[2]) < 4 * 120
             THEN i
             ELSE HouseNumberBlock(text_blocks, address_blocks, i + 1)

\* lines 593-604: the blocks that hold a digit and are shorter than 10
NumberBlocks(text_blocks) ==
    SelectSeq(text_blocks,
              LAMBDA block :
                LET text == strip(block.text)
                IN  /\ ~is_id_number_text(text)
                    /\ re_search(digits_pattern, text).found
                    /\ Len(text) < 10 /\ Len(text) < 15)

\* min(number_blocks, key=...): the first of the nearest blocks
ClosestBlock(number_blocks, last_address_block) ==
    LET d(b) == Abs(b.center[2] - last_address_block.center[2])
        best == CHOOSE m \in 1..Len(number_blocks) :
                    /\ \A n \in 1..Len(number_blocks) : d(number_blocks[m]) <= d(number_blocks[n])
                    /\ \A n \in 1..(m - 1) : d(number_blocks[n]) > d(number_blocks[m])
    IN  number_blocks[best]

\* lines 549-621: the house-number repair of the merged address
RepairHouseNumber(address, text_blocks, address_blocks) ==
    LET house == HouseNumberBlock(text_blocks, address_blocks, 1)
        number_blocks == NumberBlocks(text_blocks)
        last_address_block == address_blocks[Len(address_blocks)]
        closest_block == ClosestBlock(number_blocks, last_address_block)
        closest_text == strip(closest_block.text)
    IN  IF house # 0
        THEN IF EndsWith(address, text_blocks[house].text) THEN address
             ELSE address \o text_blocks[house].text
        ELSE IF re_search(digit_pattern, address).found THEN address
        ELSE IF number_blocks = <<>> THEN address
        ELSE IF /\ ~is_id_number_text(closest_text)
                /\ Abs(closest_block.center[2] - last_address_block.center[2]) < 4 * 150
        THEN address \o closest_text
        ELSE address

(***************************************************************************)
(* ocr_engine.py: _post_process_address                                    *)
(***************************************************************************)

\* r'[村组社区队]'
village_char_pattern ==
    ReSet({"cun", "zub", "she", "qu", "dui"})

\* r'\d+号'
house_number_pattern ==
    ReSeq(<<RePlus(ReDigit), ReLit(<<"hao">>)>>)

\* village_number_patterns
\*   r'([村组社区队]\d+号?)'
\*   r'([^住址]*[村组社区队]\d+号?)'
\*   r'([村组社区队][^住址]*\d+号?)'
\*   r'([^住址]*[村组社区队][^住址]*\d+号?)'
village_number_patterns ==
    <<
      ReGrp(ReSeq(<<ReSet({"cun", "zub", "she", "qu", "dui"}), RePlus(ReDigit),
          ReOpt(ReLit(<<"hao">>))>>)),
      ReGrp(ReSeq(<<ReStar(ReNot({"zhu", "zhi"})), ReSet({"cun", "zub", "she", "qu",
          "dui"}), RePlus(ReDigit), ReOpt(ReLit(<<"hao">>))>>)),
      ReGrp(ReSeq(<<ReSet({"cun", "zub", "she", "qu", "dui"}), ReStar(ReNot({"zhu",
          "zhi"})), RePlus(ReDigit), ReOpt(ReLit(<<"hao">>))>>)),
      ReGrp(ReSeq(<<ReStar(ReNot({"zhu", "zhi"})), ReSet({"cun", "zub", "she", "qu",
          "dui"}), ReStar(ReNot({"zhu", "zhi"})), RePlus(ReDigit),
          ReOpt(ReLit(<<"hao">>))>>))
    >>

\* r'([^住址]*[村组社区队])'
village_name_pattern ==
    ReGrp(ReSeq(<<ReStar(ReNot({"zhu", "zhi"})), ReSet({"cun", "zub", "she", "qu",
        "dui"})>>))

\* house_number_patterns
\*   r'(\d+号)'
\*   r'(\d+[室栋单元])'
\*   r'([A-Za-z]?\d+号?)'
\*   r'(\d+-\d+号?)'
\*   r'(\d+[A-Za-z]号?)'
\*   r'(第?\d+号)'
\*   r'(\d+[弄巷里街道路]?\d*号?)'
house_number_patterns ==
    <<
      ReGrp(ReSeq(<<RePlus(ReDigit), ReLit(<<"hao">>)>>)),
      ReGrp(ReSeq(<<RePlus(ReDigit), ReSet({"shib", "dong", "dan", "yuan"})>>)),
      ReGrp(ReSeq(<<ReOpt(ReSet(AsciiLetters)), RePlus(ReDigit),
          ReOpt(ReLit(<<"hao">>))>>)),
      ReGrp(ReSeq(<<RePlus(ReDigit), ReLit(<<"-">>), RePlus(ReDigit),
          ReOpt(ReLit(<<"hao">>))>>)),
      ReGrp(ReSeq(<<RePlus(ReDigit), ReSet(AsciiLetters), ReOpt(ReLit(<<"hao">>))>>)),
      ReGrp(ReSeq(<<ReOpt(ReLit(<<"di">>)), RePlus(ReDigit), ReLit(<<"hao">>)>>)),
      ReGrp(ReSeq(<<RePlus(ReDigit), ReOpt(ReSet({"nong", "xiangb", "li", "jie", "dao",
          "lu"})), ReStar(ReDigit), ReOpt(ReLit(<<"hao">>))>>))
    >>

\* step 1, lines 859-873: the first (block, pattern) whose group is not yet
\* in the address; <<>> when the loops end without one
RECURSIVE VillageNumberPart(_, _, _, _)
VillageNumberPart(address, text_blocks, i, j) ==
    IF i > Len(text_blocks) THEN None
    ELSE LET text == strip(text_blocks[i].text)
             match == re_search(village_number_patterns[j], text)
         IN  IF Contains(text, ZhuZhi) \/ ~is_valid_address_text(text)
                \/ j > Len(village_number_patterns)
             THEN VillageNumberPart(address, text_blocks, i + 1, 1)
             ELSE IF match.found /\ ~Contains(address, Group(match, text, 1))
             THEN Some(Group(match, text, 1))
             ELSE VillageNumberPart(address, text_blocks, i, j + 1)

\* step 2, lines 876-894: the address with the first village name that is
\* not yet in it
RECURSIVE AddVillageName(_, _, _)
AddVillageName(address, text_blocks, i) ==
    IF i > Len(text_blocks) THEN address
    ELSE LET text == strip(text_blocks[i].text)
             village_match == re_search(village_name_pattern, text)
         IN  IF /\ ~Contains(text, ZhuZhi) /\ is_valid_address_text(text)
                /\ ~is_id_number_text(text)
                /\ village_match.found
                /\ ~Contains(address, Group(village_match, text, 1))
             THEN address \o Group(village_match, text, 1)
             ELSE AddVillageName(address, text_blocks, i + 1)

\* step 3, lines 896-931: the first (block, pattern) whose group is neither
\* an ID number nor in the address yet
RECURSIVE HouseNumberPart(_, _, _, _)
HouseNumberPart(address, text_blocks, i, j) ==
    IF i > Len(text_blocks) THEN None
    ELSE LET text == strip(text_blocks[i].text)
             match == re_search(house_number_patterns[j], text)
         IN  IF Contains(text, ZhuZhi) \/ Len(text) > 20 \/ ~is_valid_address_text(text)
                \/ is_id_number_text(text) \/ j > Len(house_number_patterns)
             THEN HouseNumberPart(address, text_blocks, i + 1, 1)
             ELSE IF /\ match.found
                     /\ ~is_id_number_text(Group(match, text, 1))
                     /\ ~Contains(address, Group(match, text, 1))
             THEN Some(Group(match, text, 1))
             ELSE HouseNumberPart(address, text_blocks, i, j + 1)

post_process_address(address, text_blocks) ==
    LET has_village == re_search(village_char_pattern, address).found
        has_house_number == re_search(house_number_pattern, address).found
        village_part == VillageNumberPart(address, text_blocks, 1, 1)
        with_village == IF has_village THEN address
                        ELSE AddVillageName(address, text_blocks, 1)
        house_number == HouseNumberPart(with_village, text_blocks, 1, 1)
    IN  IF ~IsNone(village_part) THEN address \o village_part[1]
        ELSE IF ~has_house_number /\ ~IsNone(house_number)
        THEN with_village \o house_number[1]
        ELSE with_village

(***************************************************************************)
(* ocr_engine.py: _apply_address_rules                                     *)
(***************************************************************************)

\* r'[乡镇]$'
township_end_pattern ==
    ReSeq(<<ReSet({"xiang", "zhen"}), ReEol>>)

\* r'[村组社区队]$'
village_end_pattern ==
    ReSeq(<<ReSet({"cun", "zub", "she", "qu", "dui"}), ReEol>>)

\* r'\d+号?'
number_pattern ==
    ReSeq(<<RePlus(ReDigit), ReOpt(ReLit(<<"hao">>))>>)

\* r'\w+[村组社区队]$'
village_word_pattern ==
    ReSeq(<<RePlus(ReSet(WordChars)), ReSet({"cun", "zub", "she", "qu", "dui"}),
        ReEol>>)

\* r'^\d+号?$'
standalone_number_pattern ==
    ReSeq(<<ReBol, RePlus(ReDigit), ReOpt(ReLit(<<"hao">>)), ReEol>>)

\* address.split()[-1]: the last run of characters that are not blanks
RECURSIVE LastWord(_)
LastWord(text) ==
    LET t == rstrip(text)
    IN  IF t = <<>> \/ t[Len(t)] \in Whitespace THEN <<>>
        ELSE IF Len(t) = 1 THEN t
        ELSE IF t[Len(t) - 1] \in Whitespace THEN <<t[Len(t)]>>
        ELSE Append(LastWord(SubSeq(t, 1, Len(t) - 1)), t[Len(t)])

\* the f-string of line 969 puts a piece of the address into a pattern as it
\* is.  Of the characters that mean something else in a pattern, the model's
\* texts hold "." (any character) and the brackets "(" and ")": brackets that
\* do not pair up make re.compile raise, brackets that pair up only group
RECURSIVE BracketDepth(_, _)
BracketDepth(text, depth) ==
    IF text = <<>> THEN depth
    ELSE IF depth < 0 THEN depth
    ELSE BracketDepth(Tail(text),
                      CASE Head(text) = "(" -> depth + 1
                        [] Head(text) = ")" -> depth - 1
                        [] OTHER -> depth)

PatternRaises(text) == BracketDepth(text, 0) # 0

PatternOfText(text) ==
    LET plain == SelectSeq(text, LAMBDA ch : ch \notin {"(", ")"})
    IN  ReSeq([i \in 1..Len(plain) |-> IF plain[i] = "." THEN ReAny ELSE ReLit(<<plain[i]>>)])

\* text.find(w) + 1, the position of the first occurrence of w in text
Find(text, w) ==
    CHOOSE i \in 1..(Len(text) - Len(w) + 1) :
        /\ SubSeq(text, i, i + Len(w) - 1) = w
        /\ \A k \in 1..(i - 1) : SubSeq(text, k, k + Len(w) - 1) # w

\* text[i:] with 0-based i
From(text, i) == SubSeq(text, i + 1, Len(text))

\* rule 1, lines 966-982: <<>> when no block fires the rule
RECURSIVE Rule1(_, _, _, _)
Rule1(address, village_pattern, text_blocks, i) ==
    IF i > Len(text_blocks) THEN None
    ELSE LET text == strip(text_blocks[i].text)
             village_match == re_search(village_pattern, text)
             village_name == Group0(village_match, text)
             rest == From(text, village_match.end - 1)
             number_match == re_search(number_pattern, rest)
         IN  IF village_match.found /\ ~Contains(address, village_name)
             THEN Some(address \o <<" ">> \o village_name
                        \o (IF number_match.found THEN Group0(number_match, rest) ELSE <<>>))
             ELSE Rule1(address, village_pattern, text_blocks, i + 1)

\* rule 2, lines 994-1004
RECURSIVE Rule2(_, _, _, _)
Rule2(address, village_name, text_blocks, i) ==
    IF i > Len(text_blocks) THEN None
    ELSE LET text == strip(text_blocks[i].text)
             idx == Find(text, village_name) - 1 + Len(village_name)
             number_match == re_search(number_pattern, From(text, idx))
         IN  IF Contains(text, village_name) /\ idx < Len(text) /\ number_match.found
             THEN Some(address \o Group0(number_match, From(text, idx)))
             ELSE Rule2(address, village_name, text_blocks, i + 1)

\* rule 3, lines 1011-1024
RECURSIVE Rule3(_, _, _)
Rule3(address, text_blocks, i) ==
    IF i > Len(text_blocks) THEN None
    ELSE LET text == strip(text_blocks[i].text)
         IN  IF /\ ~is_id_number_text(text)
                /\ re_match(standalone_number_pattern, text).found
                /\ Len(text) < 10 /\ Len(text) < 15
             THEN Some(address \o <<" ">> \o text)
             ELSE Rule3(address, text_blocks, i + 1)

\* rule 3 tried whether or not the address already holds a number
apply_address_rules_rule3_unguarded(address, name, text_blocks) ==
    LET r3 == Rule3(address, text_blocks, 1)
    IN  [raised |-> FALSE, address |-> IF IsNone(r3) THEN address ELSE r3[1]]

\* a rule engine that goes on to the later rules after rule 1 has appended
apply_address_rules_falls_through(address, name, text_blocks) ==
    LET rule1_applies == re_search(township_end_pattern, address).found
        last_word == LastWord(address)
        last_place == SubSeq(last_word, 1, Len(last_word) - 1)
        ends_township == last_word # <<>> /\ last_word[Len(last_word)] \in {"xiang", "zhen"}
        village_pattern ==
            ReSeq(<<PatternOfText(last_place), ReSet({"cun", "zub", "she", "qu", "dui"})>>)
        r1 == IF rule1_applies /\ ends_township
              THEN Rule1(address, village_pattern, text_blocks, 1) ELSE None
        after1 == IF IsNone(r1) THEN address ELSE r1[1]
        no_number == ~re_search(number_pattern, after1).found
        village_word == re_search(village_word_pattern, after1)
        r2 == IF re_search(village_end_pattern, after1).found /\ no_number
                 /\ village_word.found
              THEN Rule2(after1, Group0(village_word, after1), text_blocks, 1) ELSE None
        r3 == IF no_number THEN Rule3(after1, text_blocks, 1) ELSE None
    IN  IF rule1_applies /\ ends_township /\ text_blocks # <<>> /\ PatternRaises(last_place)
        THEN [raised |-> TRUE, exception |-> "re.error"]
        ELSE IF ~IsNone(r2) THEN [raised |-> FALSE, address |-> r2[1]]
        ELSE IF ~IsNone(r3) THEN [raised |-> FALSE, address |-> r3[1]]
        ELSE [raised |-> FALSE, address |-> after1]

\* returns [raised |-> FALSE, address |-> the address], or raised |-> TRUE
\* when the pattern of rule 1 does not compile
apply_address_rules(address, name, text_blocks) ==
    LET rule1_applies == re_search(township_end_pattern, address).found
        last_word == LastWord(address)
        last_place == SubSeq(last_word, 1, Len(last_word) - 1)
        ends_township == last_word # <<>> /\ last_word[Len(last_word)] \in {"xiang", "zhen"}
        village_pattern ==
            ReSeq(<<PatternOfText(last_place), ReSet({"cun", "zub", "she", "qu", "dui"})>>)
        r1 == IF rule1_applies /\ ends_township
              THEN Rule1(address, village_pattern, text_blocks, 1) ELSE None
        no_number == ~re_search(number_pattern, address).found
        village_word == re_search(village_word_pattern, address)
        r2 == IF re_search(village_end_pattern, address).found /\ no_number
                 /\ village_word.found
              THEN Rule2(address, Group0(village_word, address), text_blocks, 1) ELSE None
        r3 == IF no_number THEN Rule3(address, text_blocks, 1) ELSE None
    IN  IF rule1_applies /\ ends_township /\ text_blocks # <<>> /\ PatternRaises(last_place)
        THEN [raised |-> TRUE, exception |-> "re.error"]
        ELSE IF ~IsNone(r1) THEN [raised |-> FALSE, address |-> r1[1]]
        ELSE IF ~IsNone(r2) THEN [raised |-> FALSE, address |-> r2[1]]
        ELSE IF ~IsNone(r3) THEN [raised |-> FALSE, address |-> r3[1]]
        ELSE [raised |-> FALSE, address |-> address]

\* "if value: id_card_info[key] = value" for what an extractor found
PutIfFound(info, key, found) ==
    IF ~IsNone(found) /\ found[1] # <<>> THEN Put(info, key, found[1]) ELSE info

\* lines 507-631: the address of the sorted address blocks, merged, repaired,
\* post-processed and put through the rules
FrontAddress(info, text_blocks, address_blocks) ==
    apply_address_rules(
        post_process_address(
            RepairHouseNumber(MergedAddress(address_blocks), text_blocks, address_blocks),
            text_blocks),
        IF "name" \in DOMAIN info THEN info["name"] ELSE <<>>,
        text_blocks)

\* lines 627-631 with what the rules gave, or what they raised
PutAddress(info, ruled) ==
    IF ruled.raised THEN ruled
    ELSE [raised |-> FALSE, value |-> Put(info, "address", ruled.address)]

\* lines 504-635: the address is built when no block gave one and there are
\* address blocks
FrontAfterBirth(info, text_blocks, address_blocks) ==
    IF "address" \in DOMAIN info \/ address_blocks = <<>>
    THEN [raised |-> FALSE, value |-> info]
    ELSE PutAddress(info, FrontAddress(info, text_blocks, SortBlocks(address_blocks)))

\* lines 493-635, with st what the loop over the blocks left
FrontAfterLoop(st, text_blocks) ==
    FrontAfterBirth(BirthFromIdNumber(st.id_card_info), text_blocks, st.address_blocks)

\* the national card's front, lines 391-635: [raised |-> FALSE, value |-> the
\* mapping], or raised |-> TRUE when the rule engine raised
ExtractFront(text_blocks) ==
    FrontAfterLoop(
        FrontLoop([id_card_info |->
                      PutIfFound(PutIfFound(EmptyDict, "id_number",
                                            extract_id_number(text_blocks)),
                                 "name", extract_name_smart(text_blocks)),
                   address_blocks |-> <<>>],
                  text_blocks, 1),
        text_blocks)

(***************************************************************************)
(* ocr_engine.py: extract_id_card_info, the back of the national card      *)
(***************************************************************************)

\* r'签发机关[\s:：]*(.+)'
issue_authority_pattern ==
    ReSeq(<<ReLit(<<"qian", "fa", "ji", "guan">>), ReStar(ReSet(Whitespace \cup {":",
        "fcolon"})), ReGrp(RePlus(ReAny))>>)

\* r'有效期[限至]?[\s:：]*(.+)'
valid_period_pattern ==
    ReSeq(<<ReLit(<<"you", "xiao", "qi">>), ReOpt(ReSet({"xian", "zhib"})),
        ReStar(ReSet(Whitespace \cup {":", "fcolon"})), ReGrp(RePlus(ReAny))>>)

BackBlock(info, block) ==
    LET text == strip(block.text)
        authority == re_search(issue_authority_pattern, text)
        period == re_search(valid_period_pattern, text)
        info1 == IF Contains(text, <<"qian", "fa", "ji", "guan">>) /\ authority.found
                 THEN Put(info, "issue_authority", strip(Group(authority, text, 1)))
                 ELSE info
    IN  IF Contains(text, <<"you", "xiao", "qi">>) /\ period.found
        THEN Put(info1, "valid_period", strip(Group(period, text, 1)))
        ELSE info1

RECURSIVE BackLoop(_, _, _)
BackLoop(info, text_blocks, i) ==
    IF i > Len(text_blocks) THEN info
    ELSE BackLoop(BackBlock(info, text_blocks[i]), text_blocks, i + 1)

\* lines 636-651
ExtractBack(text_blocks) == [raised |-> FALSE, value |-> BackLoop(EmptyDict, text_blocks, 1)]

(***************************************************************************)
(* ocr_engine.py: _is_english_name_part, _smart_find_english_name,         *)
(* _format_english_name                                                    *)
(***************************************************************************)

\* r'[^\w]'
non_word_pattern ==
    ReNot(WordChars)

\* r'[A-Za-z]'
ascii_letter_pattern ==
    ReSet(AsciiLetters)

\* excluded_patterns
\*   r'^\d+$'
\*   r'^[性别出生国籍有效期限证件号码签发机关]+'
\*   r'^(Sex|Birth|Nationality|Period|Validity|IDNO|CardNo)$'
\*   r'^\d{4}\.\d{2}\.\d{2}'
\*   r'证件样本'
excluded_patterns ==
    <<
      ReSeq(<<ReBol, RePlus(ReDigit), ReEol>>),
      ReSeq(<<ReBol, RePlus(ReSet({"xingb", "bie", "chu", "sheng", "guo", "jib", "you",
          "xiao", "qi", "xian", "zheng", "jian", "hao", "ma", "qian", "fa", "ji",
          "guan"}))>>),
      ReSeq(<<ReBol, ReGrp(ReAlt(<<ReLit(<<"S", "e", "x">>), ReLit(<<"B", "i", "r",
          "t", "h">>), ReLit(<<"N", "a", "t", "i", "o", "n", "a", "l", "i", "t",
          "y">>), ReLit(<<"P", "e", "r", "i", "o", "d">>), ReLit(<<"V", "a", "l", "i",
          "d", "i", "t", "y">>), ReLit(<<"I", "D", "N", "O">>), ReLit(<<"C", "a", "r",
          "d", "N", "o">>)>>)), ReEol>>),
      ReSeq(<<ReBol, ReRep(ReDigit, 4, 4), ReLit(<<".">>), ReRep(ReDigit, 2, 2),
          ReLit(<<".">>), ReRep(ReDigit, 2, 2)>>),
      ReLit(<<"zheng", "jian", "yang", "ben">>)
    >>

is_english_name_part(text) ==
    LET cleaned_text == re_sub(non_word_pattern, <<>>, text)
        letter_count == CountIn(cleaned_text, AlphaChars)
        total_count == Len(cleaned_text)
    IN  IF text = <<>> \/ Len(text) < 2 THEN FALSE
        ELSE IF cleaned_text = <<>> THEN FALSE
        \* letter_count / total_count < 0.7
        ELSE IF 10 * letter_count < 7 * total_count THEN FALSE
        ELSE IF ~re_search(ascii_letter_pattern, cleaned_text).found THEN FALSE
        ELSE FirstPattern(excluded_patterns, text, 1) = 0

\* the formats of lines 1371-1373
\*   r'^[A-Za-z]+$'
\*   r'^[A-Z][a-z]+$'
\*   r'^[A-Z]+(?:\.[A-Z]+)*$'
english_name_formats ==
    <<
      ReSeq(<<ReBol, RePlus(ReSet(AsciiLetters)), ReEol>>),
      ReSeq(<<ReBol, ReSet(AsciiUpper), RePlus(ReSet(AsciiLower)), ReEol>>),
      ReSeq(<<ReBol, RePlus(ReSet(AsciiUpper)), ReStar(ReSeq(<<ReLit(<<".">>),
          RePlus(ReSet(AsciiUpper))>>)), ReEol>>)
    >>

\* text.replace(".", " ")
DotsToBlanks(text) == [i \in 1..Len(text) |-> IF text[i] = "." THEN " " ELSE text[i]]

\* str.isdigit() on the model's alphabet
IsDigitText(text) == text # <<>> /\ AllIn(text, Digits)

\* the list english_candidates
RECURSIVE EnglishCandidates(_)
EnglishCandidates(all_texts) ==
    IF all_texts = <<>> THEN <<>>
    ELSE LET text == Head(all_texts)
         IN  (IF /\ is_english_name_part(text)
                 /\ Len(text) >= 3 /\ ~IsDigitText(text)
                 /\ MatchesAny(english_name_formats, text)
              THEN <<DotsToBlanks(text)>> ELSE <<>>)
             \o EnglishCandidates(Tail(all_texts))

smart_find_english_name(all_texts) ==
    LET english_candidates == EnglishCandidates(all_texts)
    IN  IF english_candidates = <<>> THEN None
        ELSE IF Len(english_candidates) = 1 THEN Some(english_candidates[1])
        ELSE Some(Join(SubSeq(english_candidates, 1,
                              IF Len(english_candidates) < 3 THEN Len(english_candidates) ELSE 3),
                       <<" ">>))

\* r'^[A-Z]+$'
upper_pattern ==
    ReSeq(<<ReBol, RePlus(ReSet(AsciiUpper)), ReEol>>)

\* common_patterns, the patterns
\*   r'^ZHENGJIAN([A-Z]{6,})$'
\*   r'^([A-Z]{8})([A-Z]{6})$'
\*   r'^([A-Z]{7})([A-Z]{7})$'
\*   r'^([A-Z]{4,6})([A-Z]{8,})$'
\*   r'^([A-Z]{4,8})([A-Z]{4,})$'
common_patterns ==
    <<
      ReSeq(<<ReBol, ReLit(<<"Z", "H", "E", "N", "G", "J", "I", "A", "N">>),
          ReGrp(ReRep(ReSet(AsciiUpper), 6, -1)), ReEol>>),
      ReSeq(<<ReBol, ReGrp(ReRep(ReSet(AsciiUpper), 8, 8)),
          ReGrp(ReRep(ReSet(AsciiUpper), 6, 6)), ReEol>>),
      ReSeq(<<ReBol, ReGrp(ReRep(ReSet(AsciiUpper), 7, 7)),
          ReGrp(ReRep(ReSet(AsciiUpper), 7, 7)), ReEol>>),
      ReSeq(<<ReBol, ReGrp(ReRep(ReSet(AsciiUpper), 4, 6)),
          ReGrp(ReRep(ReSet(AsciiUpper), 8, -1)), ReEol>>),
      ReSeq(<<ReBol, ReGrp(ReRep(ReSet(AsciiUpper), 4, 8)),
          ReGrp(ReRep(ReSet(AsciiUpper), 4, -1)), ReEol>>)
    >>

\* a replacement template without the blank between the groups
CommonReplacement_without_blank(name_text, j) ==
    LET match == re_match(common_patterns[j], name_text)
    IN  IF j = 1
        THEN <<"Z", "H", "E", "N", "G", "J", "I", "A", "N">> \o Group(match, name_text, 1)
        ELSE Group(match, name_text, 1) \o Group(match, name_text, 2)

\* re.sub(pattern, replacement, name_text) for the j-th of common_patterns:
\* r'ZHENGJIAN \1' for the first, r'\1 \2' for the others
CommonReplacement(name_text, j) ==
    LET match == re_match(common_patterns[j], name_text)
    IN  IF j = 1
        THEN <<"Z", "H", "E", "N", "G", "J", "I", "A", "N", " ">> \o Group(match, name_text, 1)
        ELSE Group(match, name_text, 1) \o <<" ">> \o Group(match, name_text, 2)

\* lines 1435-1446: the loops over offset and pos; <<best_split, stop>> after
\* the positions tried so far, stop once best_split has left mid_point
RECURSIVE BestSplit(_, _, _, _)
BestSplit(length, mid_point, offset, best_split) ==
    IF offset > 2 \/ best_split # mid_point THEN best_split
    ELSE LET first == mid_point + offset
             second == mid_point - offset
             ok(pos) == 3 <= pos /\ pos <= length - 3
         IN  BestSplit(length, mid_point, offset + 1,
                       IF ok(first) THEN first
                       ELSE IF ok(second) THEN second
                       ELSE best_split)

format_english_name(name_text) ==
    LET j == FirstPattern(common_patterns, name_text, 1)
        mid_point == Len(name_text) \div 2
        best_split == BestSplit(Len(name_text), mid_point, 0, mid_point)
    IN  IF name_text = <<>> \/ ~re_match(upper_pattern, name_text).found THEN name_text
        ELSE IF j # 0 THEN CommonReplacement(name_text, j)
        ELSE Slice(name_text, 0, best_split) \o <<" ">>
                \o Slice(name_text, best_split, Len(name_text))

(***************************************************************************)
(* ocr_engine.py: _extract_foreign_id_card_info                            *)
(***************************************************************************)

\* 新版外国人永久居留身份证 / 旧版外国人永久居留身份证
card_type_new ==
    <<"xin","ban","wai","guo","ren","yong","jiu","jub","liu","shen","fen","zheng">>
card_type_old ==
    <<"jiub","ban","wai","guo","ren","yong","jiu","jub","liu","shen","fen","zheng">>

\* 证件样本
ZhengJianYangBen == <<"zheng", "jian", "yang", "ben">>

\* 加拿大 CAN 美国 USA 英国 GBR
countries ==
    <<<<"jia","na","da">>,
      <<"C","A","N">>,
      <<"mei","guo">>,
      <<"U","S","A">>,
      <<"ying","guo">>,
      <<"G","B","R">>>>

\* r'^[男女]/[MF]$'
foreign_sex_pattern ==
    ReSeq(<<ReBol, ReSet({"nan", "nv"}), ReLit(<<"/">>), ReSet({"M", "F"}), ReEol>>)

\* r'^\d{4}\.\d{2}\.\d{2}$'
foreign_birth_pattern ==
    ReSeq(<<ReBol, ReRep(ReDigit, 4, 4), ReLit(<<".">>), ReRep(ReDigit, 2, 2),
        ReLit(<<".">>), ReRep(ReDigit, 2, 2), ReEol>>)

\* r'^\d{18}$'
residence_new_pattern ==
    ReSeq(<<ReBol, ReRep(ReDigit, 18, 18), ReEol>>)

\* r'\d{4}\.\d{2}\.\d{2}-\d{4}\.\d{2}\.\d{2}'
valid_until_pattern ==
    ReSeq(<<ReRep(ReDigit, 4, 4), ReLit(<<".">>), ReRep(ReDigit, 2, 2), ReLit(<<".">>),
        ReRep(ReDigit, 2, 2), ReLit(<<"-">>), ReRep(ReDigit, 4, 4), ReLit(<<".">>),
        ReRep(ReDigit, 2, 2), ReLit(<<".">>), ReRep(ReDigit, 2, 2)>>)

\* r'^[A-Z]+(?:\.[A-Z]+)*$'
full_name_pattern ==
    ReSeq(<<ReBol, RePlus(ReSet(AsciiUpper)), ReStar(ReSeq(<<ReLit(<<".">>),
        RePlus(ReSet(AsciiUpper))>>)), ReEol>>)

\* r'^[A-Z]+\d+$'
residence_old_pattern ==
    ReSeq(<<ReBol, RePlus(ReSet(AsciiUpper)), RePlus(ReDigit), ReEol>>)

\* the literal of line 1270, "2023.09.15-2033.09.14"
expected_valid_until ==
    <<"2","0","2","3",".","0","9",".","1","5","-","2","0","3","3",".","0","9",".","1","4">>

\* the first index of a list whose member satisfies P (0: there is none)
RECURSIVE FirstWhere(_, _, _)
FirstWhere(list, P(_), i) ==
    IF i > Len(list) THEN 0
    ELSE IF P(list[i]) THEN i
    ELSE FirstWhere(list, P, i + 1)

\* "for text in all_texts: if P(text): id_card_info[key] = text; break"
PutFirst(info, key, all_texts, P(_)) ==
    LET i == FirstWhere(all_texts, P, 1)
    IN  IF i = 0 THEN info ELSE Put(info, key, all_texts[i])

\* chinese_name, the same in both versions
PutChineseName(info, all_texts) ==
    IF FirstWhere(all_texts, LAMBDA text : Contains(text, ZhengJianYangBen), 1) # 0
    THEN Put(info, "chinese_name", ZhengJianYangBen) ELSE info

HasCountry(text) == \E c \in 1..Len(countries) : Contains(text, countries[c])

\* lines 1144-1159: the English parts after the name label, from all_texts[i]
RECURSIVE EnglishParts(_, _, _)
EnglishParts(all_texts, i, english_parts) ==
    IF i > Len(all_texts) THEN english_parts
    ELSE LET text == all_texts[i]
         IN  IF is_english_name_part(text)
             THEN EnglishParts(all_texts, i + 1, Append(english_parts, text))
             ELSE IF \/ text \in {ZhengJianYangBen, <<"Y", "A", "N", "G", "B", "E", "N">>,
                                  <<"yang", "ben">>}
                     \/ Contains(text, XingBie) \/ Contains(text, <<"S", "e", "x">>)
             THEN english_parts
             ELSE IF english_parts # <<>> THEN english_parts
             ELSE EnglishParts(all_texts, i + 1, english_parts)

\* english_name of the new version, lines 1128-1174
PutEnglishNameNew(info, all_texts) ==
    LET name_index == FirstWhere(all_texts, LAMBDA text : Contains(text, <<"N", "a", "m", "e">>), 1)
        english_parts == IF name_index = 0 THEN <<>>
                         ELSE EnglishParts(all_texts, name_index + 1, <<>>)
        smart == smart_find_english_name(all_texts)
    IN  IF english_parts # <<>> THEN Put(info, "english_name", Join(english_parts, <<" ">>))
        ELSE IF ~IsNone(smart) /\ smart[1] # <<>> THEN Put(info, "english_name", smart[1])
        ELSE info

ExtractForeignNew(all_texts) ==
    LET info1 == Put(EmptyDict, "card_type", card_type_new)
        info2 == PutChineseName(info1, all_texts)
        info3 == PutEnglishNameNew(info2, all_texts)
        info4 == PutFirst(info3, "sex", all_texts,
                          LAMBDA text : re_match(foreign_sex_pattern, text).found)
        info5 == PutFirst(info4, "birth_date", all_texts,
                          LAMBDA text : re_match(foreign_birth_pattern, text).found)
        info6 == PutFirst(info5, "nationality", all_texts,
                          LAMBDA text : Contains(text, <<"/">>) /\ HasCountry(text))
        info7 == PutFirst(info6, "residence_number", all_texts,
                          LAMBDA text : re_match(residence_new_pattern, text).found)
    IN  PutFirst(info7, "valid_until", all_texts,
                 LAMBDA text : re_match(valid_until_pattern, text).found)

\* english_name of the old version, lines 1222-1235
PutEnglishNameOld(info, all_texts) ==
    LET i == FirstWhere(all_texts,
                        LAMBDA text : re_match(full_name_pattern, text).found /\ Len(text) > 8, 1)
    IN  IF i = 0 THEN info
        ELSE Put(info, "english_name",
                 IF Contains(all_texts[i], <<".">>) THEN DotsToBlanks(all_texts[i])
                 ELSE format_english_name(all_texts[i]))

\* nationality of the old version, lines 1251-1260: only the first text with
\* a country is looked at, and only 加拿大 / CAN give a value
PutNationalityOld(info, all_texts) ==
    LET i == FirstWhere(all_texts, HasCountry, 1)
    IN  IF i # 0 /\ (Contains(all_texts[i], <<"jia", "na", "da">>)
                        \/ Contains(all_texts[i], <<"C", "A", "N">>))
        THEN Put(info, "nationality", <<"jia", "na", "da">>)
        ELSE info

ExtractForeignOld(all_texts) ==
    LET info1 == Put(EmptyDict, "card_type", card_type_old)
        info2 == PutChineseName(info1, all_texts)
        info3 == PutEnglishNameOld(info2, all_texts)
        info4 == PutFirst(info3, "sex", all_texts,
                          LAMBDA text : re_match(foreign_sex_pattern, text).found)
        info5 == PutFirst(info4, "birth_date", all_texts,
                          LAMBDA text : re_match(foreign_birth_pattern, text).found)
        info6 == PutNationalityOld(info5, all_texts)
        info7 == PutFirst(info6, "residence_number", all_texts,
                          LAMBDA text : re_match(residence_old_pattern, text).found
                                        /\ Len(text) > 10)
        info8 == Put(info7, "valid_until", expected_valid_until)
    IN  PutFirst(info8, "issue_authority", all_texts,
                 LAMBDA text : Contains(text, <<"guanb", "lib2", "ju">>)
                               \/ Contains(text, <<"yib", "min">>))

extract_foreign_id_card_info(text_blocks, card_type) ==
    IF card_type = "foreign_new" THEN ExtractForeignNew(BlockTexts(text_blocks))
    ELSE ExtractForeignOld(BlockTexts(text_blocks))

(***************************************************************************)
(* ocr_engine.py: the OCR result cache and recognize_text                  *)
(***************************************************************************)

cache_max_size == 100

\* image data is a base64 string, bare or behind a "...;base64," prefix; the
\* payload stands for the string after the prefix
ImageData(payload, with_prefix) == [payload |-> payload, with_prefix |-> with_prefix]

\* _get_image_hash: the prefix is cut off before hashing, and MD5 is taken
\* to give different payloads different digests
get_image_hash(image_data) == <<"md5", image_data.payload>>

\* _ocr_cache is a dict, kept here as its entries in insertion order
CacheHas(cache, image_hash) == \E i \in 1..Len(cache) : cache[i].key = image_hash

\* _get_cached_result, for a key the cache has
get_cached_result(cache, image_hash) ==
    cache[CHOOSE i \in 1..Len(cache) : cache[i].key = image_hash].value

\* the newest entry goes when the cache is full
cache_result_evicts_newest(cache, image_hash, ocr_result) ==
    Append(IF Len(cache) >= cache_max_size THEN SubSeq(cache, 1, Len(cache) - 1) ELSE cache,
           [key |-> image_hash, value |-> ocr_result])

\* _cache_result: the oldest entry goes when the cache is full, then
\* "_ocr_cache[image_hash] = ocr_result"
cache_result(cache, image_hash, ocr_result) ==
    LET room == IF Len(cache) >= cache_max_size THEN Tail(cache) ELSE cache
    IN  IF CacheHas(room, image_hash)
        THEN [i \in 1..Len(room) |->
                IF room[i].key = image_hash
                THEN [key |-> image_hash, value |-> ocr_result] ELSE room[i]]
        ELSE Append(room, [key |-> image_hash, value |-> ocr_result])

\* what ocr.ocr returns: None, or a list of pages, each a list of entries
EngineNone == [none |-> TRUE]
EnginePages(pages) == [none |-> FALSE, pages |-> pages]

\* lines 187-199: None and the empty list give [], else the first page
FirstPage(output) ==
    IF output.none THEN <<>>
    ELSE IF output.pages = <<>> THEN <<>>
    ELSE output.pages[1]

\* a recognize_text that stores the empty list when the engine fails
recognize_text_caches_failure(cache, output, engine_raises, image_data) ==
    LET image_hash == get_image_hash(image_data)
    IN  IF CacheHas(cache, image_hash)
        THEN [ocr_result |-> get_cached_result(cache, image_hash), cache |-> cache,
              engine |-> "not called"]
        ELSE IF engine_raises
        THEN [ocr_result |-> <<>>, cache |-> cache_result(cache, image_hash, <<>>),
              engine |-> "raised"]
        ELSE [ocr_result |-> FirstPage(output),
              cache |-> cache_result(cache, image_hash, FirstPage(output)),
              engine |-> "returned"]

\* recognize_text(image, image_data) with the cache as it is, the engine
\* giving output for the image or raising: the result, the cache afterwards
\* and what became of the engine
recognize_text(cache, output, engine_raises, image_data) ==
    LET image_hash == get_image_hash(image_data)
    IN  IF CacheHas(cache, image_hash)
        THEN [ocr_result |-> get_cached_result(cache, image_hash), cache |-> cache,
              engine |-> "not called"]
        ELSE IF engine_raises
        THEN [ocr_result |-> <<>>, cache |-> cache, engine |-> "raised"]
        ELSE [ocr_result |-> FirstPage(output),
              cache |-> cache_result(cache, image_hash, FirstPage(output)),
              engine |-> "returned"]

(***************************************************************************)
(* ocr_engine.py: extract_id_card_info                                     *)
(***************************************************************************)

\* str.startswith("foreign") for the card types of the interface
StartsWithForeign(card_type) == card_type \in {"foreign_new", "foreign_old"}

\* lines 366-375 with the texts in Python's reversed() order
DebugInfo_reversed(text_blocks) ==
    Put(Put(Put(EmptyDict, "ocr_text",
                [i \in 1..Len(text_blocks) |-> text_blocks[Len(text_blocks) + 1 - i].text]),
            "total_blocks", Len(text_blocks)), "debug_mode", TRUE)

\* lines 366-375
DebugInfo(text_blocks) ==
    Put(Put(Put(EmptyDict, "ocr_text", BlockTexts(text_blocks)),
            "total_blocks", Len(text_blocks)), "debug_mode", TRUE)

\* lines 377-382 with the hints ignored in auto mode only for the card type
SelectHandler_keeps_side_hint(card_type, is_front, detected) ==
    IF card_type = "auto" THEN <<detected[1], is_front>> ELSE <<card_type, is_front>>

\* lines 377-382: in auto mode what detect_card_type said replaces both hints
SelectHandler(card_type, is_front, detected) ==
    IF card_type = "auto" THEN detected ELSE <<card_type, is_front>>

\* lines 388-668: the national branches return what the side's extractor
\* found, or pass on what it raised
NationalResult(text_blocks, front, detection, national) ==
    IF national.raised
    THEN [raised |-> TRUE, exception |-> national.exception,
          branch |-> IF front THEN "front" ELSE "back",
          text_blocks |-> Some(text_blocks), detection |-> detection]
    ELSE [raised |-> FALSE, value |-> national.value,
          branch |-> IF front THEN "front" ELSE "back",
          text_blocks |-> Some(text_blocks), detection |-> detection]

\* lines 377-668: the handler is selected and run; detected is what
\* detect_card_type says of the blocks
Dispatch(text_blocks, is_front, card_type, detected) ==
    LET selected == SelectHandler(card_type, is_front, detected)
        type == selected[1]
        front == selected[2]
        detection == IF card_type = "auto" THEN <<detected>> ELSE <<>>
    IN  IF StartsWithForeign(type)
        THEN [raised |-> FALSE, value |-> extract_foreign_id_card_info(text_blocks, type),
              branch |-> type, text_blocks |-> Some(text_blocks), detection |-> detection]
        ELSE NationalResult(text_blocks, front, detection,
                            IF front THEN ExtractFront(text_blocks)
                            ELSE ExtractBack(text_blocks))

\* lines 346-668 with the outcome of the loop that builds the text blocks
FromTextBlocks(built, is_front, card_type, debug) ==
    IF built.raised
    THEN [raised |-> TRUE, exception |-> built.exception, branch |-> "text blocks",
          text_blocks |-> None, detection |-> <<>>]
    ELSE IF debug
    THEN [raised |-> FALSE, value |-> DebugInfo(built.text_blocks), branch |-> "debug",
          text_blocks |-> Some(built.text_blocks), detection |-> <<>>]
    ELSE Dispatch(built.text_blocks, is_front, card_type,
                  detect_card_type(built.text_blocks))

\* lines 340-668 once recognize_text has returned: what the body returns or
\* raises, with the text blocks it built (None when it did not get that
\* far), the branch it took and what detect_card_type said
ExtractFromOcrResult(ocr_result, is_front, card_type, debug) ==
    IF ocr_result = <<>>
    THEN [raised |-> FALSE, value |-> EmptyDict, branch |-> "no text",
          text_blocks |-> None, detection |-> <<>>]
    ELSE FromTextBlocks(BuildTextBlocks(ocr_result), is_front, card_type, debug)

\* an "except ValueError" in the place of the "except Exception"
TryExcept_value_errors_only(body) ==
    IF body.raised /\ body.exception # "ValueError"
    THEN [raised |-> TRUE, exception |-> body.exception]
    ELSE [raised |-> FALSE, value |-> IF body.raised THEN EmptyDict ELSE body.value]

\* the "except Exception" of lines 670-682: whatever the body raised, the
\* caller gets the empty mapping
TryExcept(body) ==
    [raised |-> FALSE, value |-> IF body.raised THEN EmptyDict ELSE body.value]

\* an exception handler that does not put the flag back
Leave_handler_keeps_flag(set, original_fast_mode, fast_mode, cache, engine, body) ==
    [returned |-> TryExcept(body),
     config |-> IF fast_mode /\ ~body.raised /\ body.branch \in {"front", "back"}
                THEN [set EXCEPT !.enable_fast_mode = original_fast_mode]
                ELSE set,
     cache |-> cache,
     log |-> [fn |-> "extract_id_card_info",
              exception |-> IF body.raised THEN body.exception ELSE "none",
              branch |-> body.branch,
              text_blocks |-> body.text_blocks,
              detection |-> body.detection,
              engine |-> engine]]

\* lines 664-682, the way out of extract_id_card_info: the caller gets what
\* the body returned or the empty mapping; the flag is put back on the way
\* out of the national branches and in the exception handler (lines 664-665
\* and 673-675)
Leave(set, original_fast_mode, fast_mode, cache, engine, body) ==
    [returned |-> TryExcept(body),
     config |-> IF fast_mode /\ (body.raised \/ body.branch \in {"front", "back"})
                THEN [set EXCEPT !.enable_fast_mode = original_fast_mode]
                ELSE set,
     cache |-> cache,
     log |-> [fn |-> "extract_id_card_info",
              exception |-> IF body.raised THEN body.exception ELSE "none",
              branch |-> body.branch,
              text_blocks |-> body.text_blocks,
              detection |-> body.detection,
              engine |-> engine]]

\* lines 327-668 on the path that preprocesses with preprocess_id_card_image
Recognized(set, original_fast_mode, fast_mode, recognized, is_front, card_type, debug) ==
    Leave(set, original_fast_mode, fast_mode, recognized.cache, recognized.engine,
          ExtractFromOcrResult(recognized.ocr_result, is_front, card_type, debug))

\* extract_id_card_info(image_data, is_front, card_type, debug, fast_mode), run
\* with the configuration and the cache as they are; output is what the
\* engine reads in the preprocessed image, engine_raises whether it fails
\* this time.  Gives what the caller gets, the configuration and the cache
\* afterwards, and the log of the call
extract_id_card_info(config, cache, output, engine_raises, image_data, is_front, card_type, debug, fast_mode) ==
    LET original_fast_mode == config.enable_fast_mode
        \* lines 315-318
        set == IF fast_mode THEN [config EXCEPT !.enable_fast_mode = TRUE] ELSE config
    IN  \* lines 322-326: ImageProcessor has no preprocess_id_card_image_fast
        IF set.enable_fast_mode \/ set.enable_memory_optimization
        THEN Leave(set, original_fast_mode, fast_mode, cache, "not called",
                   [raised |-> TRUE, exception |-> "AttributeError",
                    branch |-> "preprocess", text_blocks |-> None, detection |-> <<>>])
        ELSE Recognized(set, original_fast_mode, fast_mode,
                        recognize_text(cache, output, engine_raises, image_data),
                        is_front, card_type, debug)

(***************************************************************************)
(* Specification SpecValidate: validate_id_number applied to well-formed   *)
(* ID numbers and to their single-character replacements                   *)
(***************************************************************************)

\* the state of the module right after import, before any request
ConfigAtImport == [enable_fast_mode |-> FALSE, enable_memory_optimization |-> TRUE]

IdRegions == {<<"1","1","0","1","0","1">>, <<"4","4","0","3","0","5">>}

IdBirthDates ==
    {<<"1","9","9","0","0","1","0","1">>, <<"1","9","4","9","1","0","0","1">>,
     <<"2","0","0","0","1","2","3","1">>}

IdSequenceCodes == {<<"0","0","1">>, <<"1","2","3">>, <<"0","8","8">>}

\* the check character as the claim states it: weights, sum mod 11, "10X98765432"
ClaimWeights == <<7, 9, 10, 5, 8, 4, 2, 1, 6, 3, 7, 9, 10, 5, 8, 4, 2>>

RECURSIVE ClaimWeightedSum(_, _)
ClaimWeightedSum(d, n) ==
    IF n = 0 THEN 0 ELSE ClaimWeightedSum(d, n - 1) + DigitValue(d[n]) * ClaimWeights[n]

ClaimCheckChar(d) ==
    <<"1", "0", "X", "9", "8", "7", "6", "5", "4", "3", "2">>[(ClaimWeightedSum(d, 17) % 11) + 1]

WellFormedIdNumbers ==
    {(r \o d \o s) \o <<ClaimCheckChar(r \o d \o s)>> :
        r \in IdRegions, d \in IdBirthDates, s \in IdSequenceCodes}

ReplacementChars == Digits \cup {"X", "x", "A", " "}

NoCall == [fn |-> "none"]
NoLog == [fn |-> "none"]
NoWorld == [payload |-> "none"]

\* the caller takes the returned value and is ready for its next call
Return ==
    /\ pc = "returned"
    /\ pc' = "idle"
    /\ call' = NoCall
    /\ result' = FALSE
    /\ log' = NoLog
    /\ UNCHANGED <<OCR_PERFORMANCE_CONFIG, ocr_cache, world>>

InitIdle ==
    /\ OCR_PERFORMANCE_CONFIG = ConfigAtImport
    /\ ocr_cache = <<>>
    /\ pc = "idle"
    /\ call = NoCall
    /\ result = FALSE
    /\ world = NoWorld
    /\ log = NoLog

ValidateGenuine ==
    \E b \in WellFormedIdNumbers :
        /\ pc = "idle"
        /\ pc' = "returned"
        /\ call' = [fn |-> "validate_id_number", base |-> b, pos |-> 0, id_number |-> b]
        /\ result' = validate_id_number(b)
        /\ UNCHANGED <<OCR_PERFORMANCE_CONFIG, ocr_cache, world, log>>

ValidateReplaced ==
    \E b \in WellFormedIdNumbers, i \in 1..18, c \in ReplacementChars :
        /\ c # b[i]
        /\ pc = "idle"
        /\ pc' = "returned"
        /\ call' = [fn |-> "validate_id_number", base |-> b, pos |-> i,
                    id_number |-> [b EXCEPT ![i] = c]]
        /\ result' = validate_id_number([b EXCEPT ![i] = c])
        /\ UNCHANGED <<OCR_PERFORMANCE_CONFIG, ocr_cache, world, log>>

NextValidate == ValidateGenuine \/ ValidateReplaced \/ Return

SpecValidate == InitIdle /\ [][NextValidate]_vars

\* the replacement only changed the case of the final check character (X <-> x)
OnlyCaseOfCheckChanged ==
    /\ call.pos = 18
    /\ Upper(call.id_number[18]) = Upper(call.base[18])

IdNumberLabel == <<"gong", "min", "shen", "fen", "hao", "ma">>

\* leading / trailing blanks around a text
Padding == {<<>>, <<" ">>}

\* whole texts that are one 18-character ID number (any admissible last character)
TextsId18 ==
    {SubSeq(b, 1, 17) \o <<c>> : b \in WellFormedIdNumbers, c \in {"0", "7", "X", "x"}}

\* whole texts that are 15 digits (the old ID number format)
TextsId15 == {SubSeq(b, 1, 6) \o SubSeq(b, 9, 17) : b \in WellFormedIdNumbers}

\* texts that contain the ID-number label, with address-like text around it
TextsLabelled ==
    {pre \o IdNumberLabel \o post :
        pre \in {<<>>, <<"zhu", "zhi">>, <<"bei", "jing", "shi">>},
        post \in {<<>>, <<"1", "hao">>, <<"bei", "jing", "shi">>, <<" ", "1", "2">>}}

\* bare four-digit years 1900..2099
TextsYear ==
    {c \o <<d1, d2>> : c \in {<<"1", "9">>, <<"2", "0">>}, d1 \in Digits, d2 \in Digits}

\* everything else: house numbers, address parts, personal tokens, dates
TextsOther ==
    {n \o h \o l :
        n \in {<<"1">>, <<"1", "2">>, <<"2", "1", "8">>, <<"1", "8", "9", "9">>,
               <<"2", "1", "0", "0">>, <<"1", "2", "3", "4", "5">>},
        h \in {<<>>, <<"hao">>}, l \in {<<>>, <<"A">>, <<"b">>, <<"shib">>}}
    \cup {<<"bei", "jing", "shi", "hai", "dian", "qu">>, <<"nan">>, <<"han">>,
          <<"chu", "sheng", "1", "9", "9", "0">>, <<"chu", "sheng", "bei", "jing", "shi">>,
          <<"zhang", "san">>, <<"bian", "zhuang", "cun", "2", "1", "8", "hao">>,
          <<"1", "9", "9", "0", "nian", "1", "yue", "1", "ri">>, <<>>,
          <<"1", "2", "3", "4", "5", "6", "7", "8", "9", "0">>}

AddrTextInputs ==
    {[kind |-> "id18", text |-> a \o t \o b] : t \in TextsId18, a \in Padding, b \in Padding}
    \cup {[kind |-> "id15", text |-> a \o t \o b] : t \in TextsId15, a \in Padding, b \in Padding}
    \cup {[kind |-> "labelled", text |-> t] : t \in TextsLabelled}
    \cup {[kind |-> "year", text |-> a \o t \o b] : t \in TextsYear, a \in Padding, b \in Padding}
    \cup {[kind |-> "other", text |-> t] : t \in TextsOther}

CheckAddressText ==
    \E in \in AddrTextInputs :
        /\ pc = "idle"
        /\ pc' = "returned"
        /\ call' = [fn |-> "_is_valid_address_text", kind |-> in.kind, text |-> in.text]
        /\ result' = is_valid_address_text(in.text)
        /\ UNCHANGED <<OCR_PERFORMANCE_CONFIG, ocr_cache, world, log>>

NextAddrText == CheckAddressText \/ Return

SpecAddrText == InitIdle /\ [][NextAddrText]_vars

\* the text holds one of the address keyword characters 号 / 市 / 村
HasAddressKeyword(text) == \E i \in 1..Len(text) : text[i] \in {"hao", "shi", "cun"}

\* C10: _is_valid_address_text returns false for every text shaped exactly like
\* a national ID number (15 digits, or the 18-character pattern), and a text
\* that contains the ID-number label or is a bare year 19xx/20xx is rejected
\* although it contains an address keyword or has the house-number shape.
C10_ExclusionsBeforeInclusions ==
    call.fn = "_is_valid_address_text" =>
        /\ call.kind \in {"id18", "id15"} => result = FALSE
        /\ (call.kind = "labelled" /\ HasAddressKeyword(call.text)) => result = FALSE
        /\ (call.kind = "year" /\ IsHouseNumberShape(strip(call.text))) => result = FALSE
        /\ call.kind = "labelled" => HasAddressKeyword(call.text)
        /\ call.kind = "year" => IsHouseNumberShape(strip(call.text))

\* a bare year, which has the house-number shape (1-4 digits), was rejected
C10_Witness ==
    /\ call.fn = "_is_valid_address_text"
    /\ result = FALSE
    /\ call.kind = "year"
    /\ IsHouseNumberShape(strip(call.text))

(***************************************************************************)
(* Specification SpecDetect: detect_card_type applied to block sequences   *)
(***************************************************************************)

\* longest block sequence handed to the classifier
MaxDetectBlocks == 2

\* Range of a sequence
Range(f) == {f[i] : i \in DOMAIN f}

\* block texts: every keyword of every vocabulary, the two halves of
\* "Date.of Birth" (which only the joining blank completes) and two texts
\* that match nothing
DetectTexts ==
    Range(foreign_keywords) \cup Range(chinese_keywords) \cup Range(front_indicators)
    \cup Range(back_indicators)
    \cup {<<"D", "a", "t", "e", ".", "o", "f">>, <<"B", "i", "r", "t", "h">>,
          <<"zhang", "san">>, <<"1", "2">>}

\* a text block as extract_id_card_info builds it, the i-th line of the card
DetectBlock(text, i) ==
    [text |-> text, confidence |-> 99, center |-> <<400, 160 * i>>,
     coords |-> <<<<0, 40 * i - 10>>, <<200, 40 * i - 10>>,
                  <<200, 40 * i + 10>>, <<0, 40 * i + 10>>>>]

DetectInputs ==
    UNION {[1..n -> DetectTexts] : n \in 0..MaxDetectBlocks}

DetectCardType ==
    \E texts \in DetectInputs :
        /\ pc = "idle"
        /\ pc' = "returned"
        /\ call' = [fn |-> "detect_card_type",
                    text_blocks |-> [i \in 1..Len(texts) |-> DetectBlock(texts[i], i)]]
        /\ result' = detect_card_type(call'.text_blocks)
        /\ UNCHANGED <<OCR_PERFORMANCE_CONFIG, ocr_cache, world, log>>

NextDetect == DetectCardType \/ Return

SpecDetect == InitIdle /\ [][NextDetect]_vars

\* the block texts joined by single blanks, written without Join
RECURSIVE Concatenated(_)
Concatenated(text_blocks) ==
    IF Len(text_blocks) = 0 THEN <<>>
    ELSE IF Len(text_blocks) = 1 THEN text_blocks[1].text
    ELSE Concatenated(SubSeq(text_blocks, 1, Len(text_blocks) - 1))
            \o <<" ">> \o text_blocks[Len(text_blocks)].text

\* how many words of a vocabulary occur in a text
Occurring(vocabulary, text) ==
    Cardinality({i \in DOMAIN vocabulary : Contains(text, vocabulary[i])})

\* C7: detect_card_type always returns a (type, side) pair; with at least two
\* foreign keywords in the concatenated texts the type is foreign, new iff the
\* new-indicator count >= the old-indicator count; otherwise with a
\* national-card indicator present the type is national and the side is front
\* iff the front-indicator count >= the back-indicator count; otherwise the
\* result is national front.
C7_DecisionOrder ==
    call.fn = "detect_card_type" =>
        LET text == Concatenated(call.text_blocks)
            foreign == Occurring(foreign_keywords, text)
            national == Occurring(chinese_keywords, text)
            new == Occurring(new_version_indicators, text)
            old == Occurring(old_version_indicators, text)
            front == Occurring(front_indicators, text)
            back == Occurring(back_indicators, text)
        IN  /\ result \in {"chinese", "foreign_new", "foreign_old"} \X BOOLEAN
            /\ foreign >= 2 =>
                    result = <<IF new >= old THEN "foreign_new" ELSE "foreign_old", TRUE>>
            /\ (foreign < 2 /\ national > 0) => result = <<"chinese", front >= back>>
            /\ (foreign < 2 /\ national = 0) => result = <<"chinese", TRUE>>

\* a foreign card with one new and one old indicator (a tie) was classified new
C7_Witness ==
    /\ call.fn = "detect_card_type"
    /\ LET text == Concatenated(call.text_blocks)
       IN  /\ Occurring(foreign_keywords, text) >= 2
           /\ Occurring(new_version_indicators, text) = 1
           /\ Occurring(old_version_indicators, text) = 1
    /\ result = <<"foreign_new", TRUE>>

(***************************************************************************)
(* Specification SpecRules: _apply_address_rules applied to an address and *)
(* a block sequence, and then once more to what it gave                    *)
(***************************************************************************)

\* longest block sequence handed to the rule engine
MaxRuleBlocks == 2

\* addresses: 太平镇 / 1号太平镇 / 太平镇边庄村 / 北京市海淀区 / 北京市 /
\* 太平镇边庄村218号 / 北京市1号 / 北京市海淀区5 / 北京 218号
RuleAddresses ==
    {<<"tai", "ping", "zhen">>,
     <<"1", "hao", "tai", "ping", "zhen">>,
     <<"tai", "ping", "zhen", "bian", "zhuang", "cun">>,
     <<"bei", "jing", "shi", "hai", "dian", "qu">>,
     <<"bei", "jing", "shi">>,
     <<"tai", "ping", "zhen", "bian", "zhuang", "cun", "2", "1", "8", "hao">>,
     <<"bei", "jing", "shi", "1", "hao">>,
     <<"bei", "jing", "shi", "hai", "dian", "qu", "5">>,
     <<"bei", "jing", " ", "2", "1", "8", "hao">>}

\* block texts: 太平村12号 / 太平村 / 边庄村218号 / 海淀区 / 218号 / 12 /
\* 110101199003071233 / 姓名张三
RuleTexts ==
    {<<"tai", "ping", "cun", "1", "2", "hao">>,
     <<"tai", "ping", "cun">>,
     <<"bian", "zhuang", "cun", "2", "1", "8", "hao">>,
     <<"hai", "dian", "qu">>,
     <<"2", "1", "8", "hao">>,
     <<"1", "2">>,
     <<"1","1","0","1","0","1","1","9","9","0","0","3","0","7","1","2","3","3">>,
     <<"xing", "ming", "zhang", "san">>}

RuleInputs == UNION {[1..n -> RuleTexts] : n \in 0..MaxRuleBlocks}

\* the first pass over an address
ApplyAddressRules ==
    \E address \in RuleAddresses, texts \in RuleInputs :
        /\ pc = "idle"
        /\ pc' = "returned"
        /\ call' = [fn |-> "_apply_address_rules", address |-> address, name |-> <<>>,
                    text_blocks |-> [i \in 1..Len(texts) |-> DetectBlock(texts[i], i)],
                    pass |-> 1]
        /\ result' = apply_address_rules(address, <<>>, call'.text_blocks)
        /\ UNCHANGED <<OCR_PERFORMANCE_CONFIG, ocr_cache, world, log>>

\* the rule engine run again on its own output, with the same blocks
ApplyAddressRulesAgain ==
    /\ pc = "returned"
    /\ call.fn = "_apply_address_rules"
    /\ call.pass = 1
    /\ ~result.raised
    /\ call' = [call EXCEPT !.address = result.address, !.pass = 2]
    /\ result' = apply_address_rules(result.address, call.name, call.text_blocks)
    /\ UNCHANGED <<OCR_PERFORMANCE_CONFIG, ocr_cache, world, log, pc>>

NextRules == ApplyAddressRules \/ ApplyAddressRulesAgain \/ Return

SpecRules == InitIdle /\ [][NextRules]_vars

\* the address holds a house-number digit and does not end in 乡 or 镇
CompleteAddress(address) ==
    /\ \E i \in 1..Len(address) : address[i] \in Digits
    /\ address # <<>>
    /\ address[Len(address)] \notin {"xiang", "zhen"}

\* C11: the address rule engine is idempotent on complete addresses: for
\* every block set and every address that already holds a house-number digit
\* and does not end in a township suffix, _apply_address_rules returns the
\* address unchanged, so a second run on its own output changes nothing.
C11_RulesIdempotent ==
    (call.fn = "_apply_address_rules" /\ CompleteAddress(call.address)) =>
        result = [raised |-> FALSE, address |-> call.address]

\* the second pass left alone an address that the first pass had completed
\* with a standalone house number
C11_Witness ==
    /\ call.fn = "_apply_address_rules"
    /\ call.pass = 2
    /\ CompleteAddress(call.address)
    /\ \E i \in 1..Len(call.text_blocks) :
            /\ re_match(standalone_number_pattern, call.text_blocks[i].text).found
            /\ Contains(call.address, <<" ">> \o call.text_blocks[i].text)
    /\ result.address = call.address

\* rule 1 taken alone on the address (lines 957-982): None when its condition
\* does not hold or no block makes it append
RuleOneAlone(address, text_blocks) ==
    LET last_word == LastWord(address)
    IN  IF /\ re_search(township_end_pattern, address).found
           /\ last_word # <<>>
           /\ last_word[Len(last_word)] \in {"xiang", "zhen"}
        THEN Rule1(address,
                   ReSeq(<<PatternOfText(SubSeq(last_word, 1, Len(last_word) - 1)),
                           ReSet({"cun", "zub", "she", "qu", "dui"})>>),
                   text_blocks, 1)
        ELSE None

\* rule 2 taken alone on the address (lines 985-1004)
RuleTwoAlone(address, text_blocks) ==
    IF /\ re_search(village_end_pattern, address).found
       /\ ~re_search(number_pattern, address).found
       /\ re_search(village_word_pattern, address).found
    THEN Rule2(address, Group0(re_search(village_word_pattern, address), address),
               text_blocks, 1)
    ELSE None

\* rule 3 taken alone on the address (lines 1007-1024)
RuleThreeAlone(address, text_blocks) ==
    IF ~re_search(number_pattern, address).found
    THEN Rule3(address, text_blocks, 1)
    ELSE None

\* what the rules taken alone give, in the order of the code
RulesAlone(address, text_blocks) ==
    <<RuleOneAlone(address, text_blocks), RuleTwoAlone(address, text_blocks),
      RuleThreeAlone(address, text_blocks)>>

\* the rules that append something to the address when taken alone
RulesThatAppend(address, text_blocks) ==
    {k \in 1..3 : ~IsNone(RulesAlone(address, text_blocks)[k])}

Least(S) == CHOOSE k \in S : \A j \in S : k <= j

\* C26: _apply_address_rules changes the address through at most one of its
\* three rules per call: when no rule's condition makes it append, the
\* address comes back as it went in; otherwise what comes back is what the
\* first rule that appends gives on the address that went in, and no later
\* rule is run on it.
C26_AtMostOneRule ==
    (pc = "returned" /\ call.fn = "_apply_address_rules" /\ ~result.raised) =>
        IF RulesThatAppend(call.address, call.text_blocks) = {}
        THEN result.address = call.address
        ELSE result.address =
                RulesAlone(call.address, call.text_blocks)[
                    Least(RulesThatAppend(call.address, call.text_blocks))][1]

\* rule 1 appended a village name without a number and the call returned,
\* although a block with a standalone house number was there for rule 3
C26_Witness ==
    /\ pc = "returned"
    /\ call.fn = "_apply_address_rules"
    /\ call.pass = 1
    /\ ~result.raised
    /\ ~IsNone(RuleOneAlone(call.address, call.text_blocks))
    /\ result.address = RuleOneAlone(call.address, call.text_blocks)[1]
    /\ ~re_search(number_pattern, result.address).found
    /\ ~IsNone(RuleThreeAlone(result.address, call.text_blocks))

(***************************************************************************)
(* Specification SpecFront: the national-front branch of                   *)
(* extract_id_card_info (lines 388-635) on the text blocks of one page     *)
(***************************************************************************)

\* longest block sequence handed to the national-front branch
MaxFrontBlocks == 2

\* block texts: 住址北京市海淀区 / 住址北京市1号 / 住址北京市 / 住址太平镇 /
\* 边庄村 / 218号 / 1995 / 110101199506070011 / 11010119950607001X /
\* 11010119951307001X (no month 13) / 公民身份号码 110101199506070011 /
\* 姓名 李四 / 出生1990年1月1日
FrontTexts ==
    {<<"zhu", "zhi", "bei", "jing", "shi", "hai", "dian", "qu">>,
     <<"zhu", "zhi", "bei", "jing", "shi", "1", "hao">>,
     <<"zhu", "zhi", "bei", "jing", "shi">>,
     <<"zhu", "zhi", "tai", "ping", "zhen">>,
     <<"bian", "zhuang", "cun">>,
     <<"2", "1", "8", "hao">>,
     <<"1", "9", "9", "5">>,
     <<"1","1","0","1","0","1","1","9","9","5","0","6","0","7","0","0","1","1">>,
     <<"1","1","0","1","0","1","1","9","9","5","0","6","0","7","0","0","1","X">>,
     <<"1","1","0","1","0","1","1","9","9","5","1","3","0","7","0","0","1","X">>,
     <<"gong", "min", "shen", "fen", "hao", "ma", " ",
       "1","1","0","1","0","1","1","9","9","5","0","6","0","7","0","0","1","1">>,
     <<"xing", "ming", " ", "lib", "si">>,
     <<"chu", "sheng", "1", "9", "9", "0", "nian", "1", "yue", "1", "ri">>}

\* block centres in pixels: the line of the address label, the next line on
\* its right and at its left edge, and two lines further down
FrontCentres ==
    {<<200, 40>>, <<200, 130>>, <<40, 130>>, <<200, 180>>, <<200, 240>>}

\* a text block as extract_id_card_info builds it from a 40 by 20 box around
\* the centre c (the centre is kept as the sum of the four corners)
FrontInputBlock(text, c) ==
    [text |-> text, confidence |-> 99, center |-> <<4 * c[1], 4 * c[2]>>,
     coords |-> <<<<c[1] - 20, c[2] - 10>>, <<c[1] + 20, c[2] - 10>>,
                  <<c[1] + 20, c[2] + 10>>, <<c[1] - 20, c[2] + 10>>>>]

FrontBlocks == {FrontInputBlock(text, c) : text \in FrontTexts, c \in FrontCentres}

FrontInputs == UNION {[1..n -> FrontBlocks] : n \in 0..MaxFrontBlocks}

\* lines 392-491: what the extractors and the loop over the blocks leave
FrontLoopResult(text_blocks) ==
    FrontLoop([id_card_info |->
                  PutIfFound(PutIfFound(EmptyDict, "id_number",
                                        extract_id_number(text_blocks)),
                             "name", extract_name_smart(text_blocks)),
               address_blocks |-> <<>>],
              text_blocks, 1)

\* the address after each stage of lines 507-625
AddressStages3(text_blocks, name, sorted, merged, repaired, processed) ==
    [address_blocks |-> sorted, merged |-> merged, repaired |-> repaired,
     processed |-> processed,
     ruled |-> apply_address_rules(processed, name, text_blocks)]

AddressStages2(text_blocks, name, sorted, merged, repaired) ==
    AddressStages3(text_blocks, name, sorted, merged, repaired,
                   post_process_address(repaired, text_blocks))

AddressStages1(text_blocks, name, sorted, merged) ==
    AddressStages2(text_blocks, name, sorted, merged,
                   RepairHouseNumber(merged, text_blocks, sorted))

AddressStages(text_blocks, info, sorted) ==
    AddressStages1(text_blocks, IF "name" \in DOMAIN info THEN info["name"] ELSE <<>>,
                   sorted, MergedAddress(sorted))

\* what the branch did on the way: the fields the loop left and, when an
\* address was built, the address after each stage (None: none was built)
FrontStages(text_blocks, st) ==
    [fn |-> "national front",
     loop |-> st.id_card_info,
     stages |-> IF st.address_blocks = <<>> THEN None
                ELSE Some(AddressStages(text_blocks, BirthFromIdNumber(st.id_card_info),
                                        SortBlocks(st.address_blocks)))]

\* the branch run on the blocks, with st what its loop left
FrontReturns(text_blocks, st) ==
    /\ pc = "idle"
    /\ pc' = "returned"
    /\ call' = [fn |-> "national front", text_blocks |-> text_blocks]
    /\ result' = FrontAfterLoop(st, text_blocks)
    /\ log' = FrontStages(text_blocks, st)
    /\ UNCHANGED <<OCR_PERFORMANCE_CONFIG, ocr_cache, world>>

ExtractFrontInfo ==
    \E text_blocks \in FrontInputs :
        FrontReturns(text_blocks, FrontLoopResult(text_blocks))

NextFront == ExtractFrontInfo \/ Return

SpecFront == InitIdle /\ [][NextFront]_vars

\* the national-front branch has returned a mapping
FrontReturned == pc = "returned" /\ call.fn = "national front" /\ ~result.raised

\* the address stages of the call that has returned
FrontStagesBuilt == FrontReturned /\ ~IsNone(log.stages)

\* a two-digit number written without its leading zero
WithoutLeadingZero(d) == IF d[1] = "0" THEN <<d[2]>> ELSE d

\* YYYY年M月D日 from characters 7-14 of an ID number
DateOfIdNumber(id) ==
    SubSeq(id, 7, 10) \o <<"nian">> \o WithoutLeadingZero(SubSeq(id, 11, 12))
      \o <<"yue">> \o WithoutLeadingZero(SubSeq(id, 13, 14)) \o <<"ri">>

\* C12: in a national-front extraction, when no block yields a birth value
\* and an ID number was extracted, the birth field is the year, month and
\* day of characters 7-14 of the ID number written YYYY年M月D日 without
\* leading zeros; when a block did yield a birth value, that value stays and
\* the date of the ID number is not used.
C12_BirthFromIdNumber ==
    FrontReturned =>
        IF "birth" \in DOMAIN log.loop
        THEN /\ "birth" \in DOMAIN result.value
             /\ result.value["birth"] = log.loop["birth"]
        ELSE "id_number" \in DOMAIN result.value =>
                /\ "birth" \in DOMAIN result.value
                /\ result.value["birth"] = DateOfIdNumber(result.value["id_number"])

\* 姓名 李四 and 公民身份号码 110101199506070011 gave the birth 1995年6月7日
C12_Witness ==
    /\ FrontReturned
    /\ Len(call.text_blocks) = 2
    /\ call.text_blocks[1].text = <<"xing", "ming", " ", "lib", "si">>
    /\ Contains(call.text_blocks[2].text, <<"gong", "min", "shen", "fen", "hao", "ma">>)
    /\ "birth" \notin DOMAIN log.loop
    /\ "birth" \in DOMAIN result.value
    /\ result.value["birth"] = <<"1", "9", "9", "5", "nian", "6", "yue", "7", "ri">>

\* the text has 18 characters, 17 digits and then a digit, X or x
IdShaped(text) ==
    /\ Len(text) = 18
    /\ \A i \in 1..17 : text[i] \in Digits
    /\ text[18] \in Digits \cup {"X", "x"}

\* the blocks without those whose whole text is shaped like an ID number
WithoutIdShaped(text_blocks) ==
    SelectSeq(text_blocks, LAMBDA block : ~IdShaped(strip(block.text)))

\* the address stages of the national-front branch on the blocks
StagesOf(text_blocks) == FrontStages(text_blocks, FrontLoopResult(text_blocks)).stages

\* C17: no block whose whole text is shaped like an 18-character ID number
\* contributes a character to the address at any stage: the address blocks
\* collected and the address after the merge, the house-number repair, the
\* post-processing and the rule engine are what they are without those
\* blocks, wherever the blocks lie, and the address of the result is the
\* one the last stage gave.
C17_NoIdInAddress ==
    FrontReturned =>
        /\ log.stages = StagesOf(WithoutIdShaped(call.text_blocks))
        /\ "address" \in DOMAIN result.value =>
                /\ ~IsNone(log.stages)
                /\ result.value["address"] = log.stages[1].ruled.address

\* an address was built from a block that has an ID-shaped block on its line
C17_Witness ==
    /\ FrontStagesBuilt
    /\ "address" \in DOMAIN result.value
    /\ result.value["address"] # <<>>
    /\ \E i, j \in 1..Len(call.text_blocks) :
            /\ IdShaped(call.text_blocks[i].text)
            /\ Contains(call.text_blocks[j].text, ZhuZhi)
            /\ call.text_blocks[i].center[2] = call.text_blocks[j].center[2]

\* what a stage appended to the address it was given (<<>>: it did not
\* extend it)
Appended(before, after) ==
    IF Len(after) > Len(before) /\ SubSeq(after, 1, Len(before)) = before
    THEN SubSeq(after, Len(before) + 1, Len(after)) ELSE <<>>

\* the fragment, if any, is text of a block that _is_valid_address_text accepts
FromAcceptedBlock(fragment, text_blocks) ==
    fragment # <<>> =>
        \E i \in 1..Len(text_blocks) :
            /\ is_valid_address_text(strip(text_blocks[i].text))
            /\ Contains(text_blocks[i].text, strip(fragment))

\* C18 as claimed: every fragment that the house-number repair, the
\* post-processing or the rule engine appends to the address comes from a
\* block whose text _is_valid_address_text accepts; a text the filter
\* rejects, such as a bare year, is never appended.
C18_OnlyAcceptedFragments ==
    FrontStagesBuilt =>
        /\ FromAcceptedBlock(Appended(log.stages[1].merged, log.stages[1].repaired),
                             call.text_blocks)
        /\ FromAcceptedBlock(Appended(log.stages[1].repaired, log.stages[1].processed),
                             call.text_blocks)
        /\ FromAcceptedBlock(Appended(log.stages[1].processed, log.stages[1].ruled.address),
                             call.text_blocks)

\* C19 as claimed: when the merged address already holds a digit, the
\* house-number repair appends nothing to it, whatever numeric blocks lie
\* near the last address block.
C19_RepairOnlyWithoutDigit ==
    (FrontStagesBuilt /\ \E i \in 1..Len(log.stages[1].merged) :
                            log.stages[1].merged[i] \in Digits)
        => log.stages[1].repaired = log.stages[1].merged

\* C20 as claimed: the address of the result never holds a whitespace
\* character, whichever stage contributed its last fragment.
C20_NoWhitespaceInAddress ==
    (FrontReturned /\ "address" \in DOMAIN result.value)
        => \A i \in 1..Len(result.value["address"]) :
                result.value["address"][i] \notin Whitespace

(***************************************************************************)
(* Specification SpecPool: the recognition endpoints (api/endpoints.py)    *)
(* and the process pool their extraction calls run in                      *)
(* (utils/concurrency.py).  Time passes in ticks.  A request's images are  *)
(* given by what extract_id_card_info returns for each (with the           *)
(* arguments the endpoint builds from its side) and by the worker time the *)
(* call takes.  world holds the clock and the calls handed to the pool,    *)
(* call the requests received, result the responses sent.                  *)
(***************************************************************************)

\* config.py: the worker processes of the pool, and the ticks a caller waits
\* for a call (read from the environment when config.py is imported)
OCR_PROCESS_POOL_SIZE == 2
OCR_TASK_TIMEOUT == 2

\* most requests received, most images in a JSON batch, last tick
MaxRequests == 2
MaxImages == 3
MaxTime == 6

\* the worker time of a call: within the timeout, or beyond it
TaskTimes == {1, 2 * OCR_TASK_TIMEOUT}

\* what extract_id_card_info returns for an image: {}, {address: ""},
\* {name: 张三}
ExtractionResults ==
    {EmptyDict, Put(EmptyDict, "address", <<>>), Put(EmptyDict, "name", <<"zhang", "san">>)}

\* the images: one for each result of a call within the timeout, and one
\* whose call goes beyond it (what that call returns reaches no caller)
Images ==
    [gives : ExtractionResults, takes : {1}]
    \cup [gives : {Put(EmptyDict, "name", <<"zhang", "san">>)}, takes : TaskTimes \ {1}]

\* models.py: the fields of IDCardInfo, all optional with default None
IDCardInfoFields ==
    {"name", "sex", "nation", "birth", "address", "id_number", "issue_authority",
     "valid_period", "chinese_name", "english_name", "birth_date", "nationality",
     "residence_number", "issue_date", "valid_until", "card_type"}

\* IDCardInfo(**result)
IDCardInfo(extracted) ==
    [field \in IDCardInfoFields |->
        IF field \in DOMAIN extracted THEN Some(extracted[field]) ELSE None]

\* "if result": the mapping is not empty
Truthy(extracted) == DOMAIN extracted # {}

\* any(result.values()): some value is not the empty string
AnyValue(extracted) == \E key \in DOMAIN extracted : extracted[key] # <<>>

\* run_task, lines 80-100: the calls of a request handed to the pool at the
\* same moment, each awaited by its caller
SubmittedCalls(request, images, now) ==
    [i \in 1..Len(images) |->
        [request |-> request, index |-> i - 1, gives |-> images[i].gives,
         takes |-> images[i].takes, submitted |-> now, state |-> "queued",
         left |-> images[i].takes, caller |-> "waiting", behind_timed_out |-> FALSE]]

RunningCalls(tasks) == {k \in DOMAIN tasks : tasks[k].state = "running"}

QueuedCalls(tasks) == {k \in DOMAIN tasks : tasks[k].state = "queued"}

\* ProcessPoolExecutor: a free worker takes the call that has waited longest
RECURSIVE StartQueued(_)
StartQueued(tasks) ==
    IF Cardinality(RunningCalls(tasks)) < OCR_PROCESS_POOL_SIZE /\ QueuedCalls(tasks) # {}
    THEN StartQueued([tasks EXCEPT ![CHOOSE k \in QueuedCalls(tasks) :
                                        \A j \in QueuedCalls(tasks) : k <= j].state = "running"])
    ELSE tasks

\* a worker is held by a call whose caller has already had its TimeoutError
HeldByTimedOut(tasks) ==
    \E k \in DOMAIN tasks : tasks[k].state = "running" /\ tasks[k].caller = "timed out"

\* one tick of work: a running call goes on whether or not its caller still
\* waits (a running call of a ProcessPoolExecutor cannot be cancelled), and
\* hands its result to a caller that still waits when it ends
Worked(task, held) ==
    IF task.state = "running"
    THEN IF task.left = 1
         THEN [task EXCEPT !.left = 0, !.state = "finished",
                           !.caller = IF @ = "waiting" THEN "returned" ELSE @]
         ELSE [task EXCEPT !.left = @ - 1]
    ELSE IF task.state = "queued"
    THEN [task EXCEPT !.behind_timed_out = @ \/ held]
    ELSE task

\* run_task, lines 92-100 and 116-119: asyncio.wait_for gives up
\* OCR_TASK_TIMEOUT after the call was handed over and raises TimeoutError;
\* cancelling takes a call that no worker has started out of the queue
TimedOut(task, now) ==
    IF task.caller = "waiting" /\ now - task.submitted >= OCR_TASK_TIMEOUT
    THEN [task EXCEPT !.caller = "timed out",
                      !.state = IF @ = "queued" THEN "cancelled" ELSE @]
    ELSE task

InitPool ==
    /\ OCR_PERFORMANCE_CONFIG = [enable_fast_mode |-> FALSE, enable_memory_optimization |-> FALSE]
    /\ ocr_cache = <<>>
    /\ world = [now |-> 0, tasks |-> <<>>]
    /\ pc = "serving"
    /\ call = <<>>
    /\ result = <<>>
    /\ log = NoLog

\* a request arrives: its calls are handed to the pool and awaited
Received(endpoint, images) ==
    /\ Len(call) < MaxRequests
    /\ call' = Append(call, [endpoint |-> endpoint, images |-> images])
    /\ result' = Append(result, None)
    /\ world' = [world EXCEPT
                    !.tasks = StartQueued(@ \o SubmittedCalls(Len(call) + 1, images, world.now))]
    /\ UNCHANGED <<OCR_PERFORMANCE_CONFIG, ocr_cache, pc, log>>

\* endpoints.py 204-238: POST /ocr/idcard with debug = false
RecognizeIdCard ==
    \E image \in Images : Received("recognize_id_card", <<image>>)

\* endpoints.py 652-702: POST /ocr/idcard/batch
BatchRecognizeIdCard ==
    \E n \in 1..MaxImages : \E images \in [1..n -> Images] :
        Received("batch_recognize_id_card", images)

\* endpoints.py 501-550: POST /ocr/idcard/batch/upload, a front, a back or both
BatchRecognizeIdCardUpload ==
    \E n \in 1..2 : \E images \in [1..n -> Images] :
        Received("batch_recognize_id_card_upload", images)

\* a tick passes while calls are in the pool
Tick ==
    /\ world.now < MaxTime
    /\ RunningCalls(world.tasks) # {}
    /\ world' = [now |-> world.now + 1,
                 tasks |-> StartQueued(
                     [k \in DOMAIN world.tasks |->
                         TimedOut(Worked(world.tasks[k], HeldByTimedOut(world.tasks)),
                                  world.now + 1)])]
    /\ UNCHANGED <<OCR_PERFORMANCE_CONFIG, ocr_cache, pc, call, result, log>>

\* the calls of a request, in the order of its images
CallsOf(tasks, request) == SelectSeq(tasks, LAMBDA task : task.request = request)

\* endpoints.py 241-285: the response of recognize_id_card to what run_task
\* returned or raised
SingleResponse(task) ==
    IF task.caller = "timed out"
    THEN [code |-> "SYSTEM_ERROR", data |-> None]
    ELSE IF ~Truthy(task.gives)
    THEN [code |-> "OCR_ERROR", data |-> None]
    ELSE [code |-> "SUCCESS", data |-> Some(IDCardInfo(task.gives))]

\* process_single_image, endpoints.py 687-699 and 535-547: None for a call
\* that raised
ProcessSingleImage(task) ==
    IF task.caller = "timed out" THEN None ELSE Some(task.gives)

\* endpoints.py 708-713 and 556-561: one entry for each result
BatchEntry(processed) ==
    IF ~IsNone(processed) /\ Truthy(processed[1]) /\ AnyValue(processed[1])
    THEN Some(IDCardInfo(processed[1])) ELSE None

\* the indices, from 0, of the entries that are None, in ascending order
RECURSIVE FailedIndices(_, _)
FailedIndices(data, i) ==
    IF i > Len(data) THEN <<>>
    ELSE (IF IsNone(data[i]) THEN <<i - 1>> ELSE <<>>) \o FailedIndices(data, i + 1)

\* endpoints.py 702-726 and 550-575
BatchResponse(tasks) ==
    [code |-> "SUCCESS",
     data |-> [i \in 1..Len(tasks) |-> BatchEntry(ProcessSingleImage(tasks[i]))],
     failed_indices |->
        FailedIndices([i \in 1..Len(tasks) |-> BatchEntry(ProcessSingleImage(tasks[i]))], 1)]

\* every awaited call of the request has returned or raised
Settled(request) ==
    /\ request \in DOMAIN call
    /\ IsNone(result[request])
    /\ \A k \in DOMAIN world.tasks :
            world.tasks[k].request = request => world.tasks[k].caller # "waiting"

RecognizeIdCardResponds ==
    \E request \in 1..MaxRequests :
        /\ Settled(request)
        /\ call[request].endpoint = "recognize_id_card"
        /\ result' = [result EXCEPT
                        ![request] = Some(SingleResponse(CallsOf(world.tasks, request)[1]))]
        /\ UNCHANGED <<OCR_PERFORMANCE_CONFIG, ocr_cache, world, pc, call, log>>

BatchRecognizeIdCardResponds ==
    \E request \in 1..MaxRequests :
        /\ Settled(request)
        /\ call[request].endpoint # "recognize_id_card"
        /\ result' = [result EXCEPT
                        ![request] = Some(BatchResponse(CallsOf(world.tasks, request)))]
        /\ UNCHANGED <<OCR_PERFORMANCE_CONFIG, ocr_cache, world, pc, call, log>>

NextPool ==
    \/ RecognizeIdCard
    \/ BatchRecognizeIdCard
    \/ BatchRecognizeIdCardUpload
    \/ Tick
    \/ RecognizeIdCardResponds
    \/ BatchRecognizeIdCardResponds

SpecPool == InitPool /\ [][NextPool]_vars

\* the entry an image gets when it is processed on its own: None when its
\* call exceeds the timeout or extracts no value
OwnEntry(image) ==
    IF image.takes <= OCR_TASK_TIMEOUT /\ (\E key \in DOMAIN image.gives : image.gives[key] # <<>>)
    THEN Some(IDCardInfo(image.gives)) ELSE None

BatchAnswered(request) ==
    /\ request \in DOMAIN call
    /\ call[request].endpoint # "recognize_id_card"
    /\ ~IsNone(result[request])

\* C14 as claimed: a batch response has one data entry for each submitted
\* image, in submission order; data[i] is null exactly when i is in
\* failed_indices; and a timeout on one image fails only that index, every
\* other entry being what its image gives on its own.
C14_BatchIndependent ==
    \A request \in 1..MaxRequests :
        BatchAnswered(request) =>
            /\ Len(result[request][1].data) = Len(call[request].images)
            /\ \A i \in 1..Len(call[request].images) :
                    /\ IsNone(result[request][1].data[i])
                          <=> (i - 1) \in Range(result[request][1].failed_indices)
                    /\ result[request][1].data[i] = OwnEntry(call[request].images[i])

\* C15 as claimed: a call that exceeds the timeout fails its own request
\* only: that request gets an error and no data, and no call that fits in
\* the timeout is timed out after waiting behind a worker that a timed-out
\* call still holds.
C15_TimeoutOwnRequestOnly ==
    /\ \A k \in DOMAIN world.tasks :
            world.tasks[k].caller = "timed out" =>
                \/ world.tasks[k].takes > OCR_TASK_TIMEOUT
                \/ ~world.tasks[k].behind_timed_out
    /\ \A request \in DOMAIN call :
            (/\ call[request].endpoint = "recognize_id_card"
             /\ ~IsNone(result[request])
             /\ call[request].images[1].takes > OCR_TASK_TIMEOUT)
                => result[request][1] = [code |-> "SYSTEM_ERROR", data |-> None]

(***************************************************************************)
(* Specification Spec: requests to extract_id_card_info for one image      *)
(***************************************************************************)

\* most entries on a page of OCR output
MaxItems == 2

\* one entry of the engine's output, [box, (text, confidence)]; the box is
\* 80 by 20 pixels with its top left corner at (x, y), the confidence is in
\* per cent
OcrEntry(text, x, y) ==
    <<<<<<x, y>>, <<x + 80, y>>, <<x + 80, y + 20>>, <<x, y + 20>>>>, <<text, 95>>>>

\* the entries the pages are made of:
\*   姓名张三 / 住址 / 住址北京(海淀镇 / 110101199003071233 /
\*   有效期限2010.01.01-2020.01.01 / ZHENGJIANYANGBEN
WellFormedEntries ==
    {OcrEntry(<<"xing","ming","zhang","san">>, 100, 20),
     OcrEntry(<<"zhu","zhi">>, 100, 140),
     OcrEntry(<<"zhu","zhi","bei","jing","(","hai","dian","zhen">>, 100, 140),
     OcrEntry(<<"1","1","0","1","0","1","1","9","9","0","0","3","0","7","1","2","3","3">>, 200, 260),
     OcrEntry(<<"you","xiao","qi","xian","2","0","1","0",".","0","1",".","0","1","-","2","0","2","0",".","0","1",".","0","1">>, 100, 60),
     OcrEntry(<<"Z","H","E","N","G","J","I","A","N","Y","A","N","G","B","E","N">>, 200, 20)}

\* entries of the wrong arity: a box alone, and a flat [box, text, confidence]
ShortEntry == <<OcrEntry(<<"1", "2">>, 100, 300)[1]>>
LongEntry == <<OcrEntry(<<"1", "2">>, 100, 300)[1], <<"1", "2">>, 95>>
MalformedEntries == {ShortEntry, LongEntry}

\* the pages with up to MaxItems entries
Pages == UNION {[1..n -> WellFormedEntries \cup MalformedEntries] : n \in 0..MaxItems}

\* a page with one block for each label of a set of front-side labels, in
\* the order of the card
LabelPage(labels) ==
    LET chosen == SelectSeq(front_indicators, LAMBDA l : l \in labels)
    IN  [i \in 1..Len(chosen) |-> OcrEntry(chosen[i], 100, 40 * i)]

FrontLabelPages == {LabelPage(labels) : labels \in (SUBSET Range(front_indicators)) \ {{}}}

\* what the engine can give for an image: nothing (None, no page), or a page
EngineOutputs ==
    {EngineNone, EnginePages(<<>>)} \cup {EnginePages(<<page>>) : page \in Pages \cup FrontLabelPages}

\* an image that cannot be decoded is replaced by a blank one
\* (ImageProcessor.preprocess_id_card_image), in which there is nothing to read
Worlds ==
    {[payload |-> "image", decodable |-> TRUE, output |-> o] : o \in EngineOutputs}
    \cup {[payload |-> "image", decodable |-> FALSE, output |-> o] :
            o \in {EngineNone, EnginePages(<<>>), EnginePages(<<<<>>>>)}}

\* the flags are read from the environment when config.py is imported
Configs == [enable_fast_mode : BOOLEAN, enable_memory_optimization : BOOLEAN]

CardTypes == {"chinese", "foreign_new", "foreign_old", "auto"}

Init ==
    /\ OCR_PERFORMANCE_CONFIG \in Configs
    /\ ocr_cache = <<>>
    /\ world \in Worlds
    /\ pc = "idle"
    /\ call = NoCall
    /\ result = FALSE
    /\ log = NoLog

\* the call returns: done is what extract_id_card_info gave
ReturnFromCall(image_data, is_front, card_type, debug, fast_mode, done) ==
    /\ pc = "idle"
    /\ pc' = "returned"
    /\ call' = [fn |-> "extract_id_card_info", image_data |-> image_data,
                is_front |-> is_front, card_type |-> card_type, debug |-> debug,
                fast_mode |-> fast_mode,
                config |-> OCR_PERFORMANCE_CONFIG, cache |-> ocr_cache]
    /\ result' = done.returned
    /\ OCR_PERFORMANCE_CONFIG' = done.config
    /\ ocr_cache' = done.cache
    /\ log' = done.log
    /\ UNCHANGED world

ExtractIdCardInfo ==
    \E with_prefix \in BOOLEAN, is_front \in BOOLEAN, card_type \in CardTypes,
       debug \in BOOLEAN, fast_mode \in BOOLEAN, engine_raises \in BOOLEAN :
        ReturnFromCall(ImageData(world.payload, with_prefix), is_front, card_type, debug,
                       fast_mode,
                       extract_id_card_info(OCR_PERFORMANCE_CONFIG, ocr_cache, world.output,
                                            engine_raises,
                                            ImageData(world.payload, with_prefix),
                                            is_front, card_type, debug, fast_mode))

Next == ExtractIdCardInfo \/ Return

Spec == Init /\ [][Next]_vars

(***************************************************************************)
(* Properties of extract_id_card_info, on the states where a call has      *)
(* just returned                                                           *)
(***************************************************************************)

Returned == pc = "returned" /\ call.fn = "extract_id_card_info"

\* the call got as far as building its text blocks
TextBlocksBuilt == Returned /\ ~IsNone(log.text_blocks)

\* the page the engine reads in the image of this world
EnginePage == FirstPage(world.output)

\* an entry of the shape [box, (text, confidence)]
WellFormed(item) == Len(item) = 2 /\ Len(item[2]) = 2

WellFormedOnly(page) == SelectSeq(page, WellFormed)

\* the texts of the well-formed entries of a page, in the engine's order
EngineTexts(page) ==
    [i \in 1..Len(WellFormedOnly(page)) |-> WellFormedOnly(page)[i][2][1]]

IsMapping(v) == \A key \in DOMAIN v : key \in STRING

\* something failed inside the call: an exception reached the handler of
\* extract_id_card_info, or the engine raised inside recognize_text
Failed == log.exception # "none" \/ log.engine = "raised"

\* C1: extract_id_card_info never raises to its caller: whatever the input
\* and whatever fails inside (preprocessing, the engine, building the text
\* blocks, extracting the fields), it returns a mapping, and the mapping is
\* empty when something failed.
C1_NeverRaises ==
    Returned =>
        /\ ~result.raised
        /\ IsMapping(result.value)
        /\ Failed => result.value = EmptyDict

\* the address rules raised re.error on an unbalanced bracket and the caller
\* got the empty mapping
C1_Witness ==
    /\ Returned
    /\ log.exception = "re.error"
    /\ result = [raised |-> FALSE, value |-> EmptyDict]

NoTextBlocks ==
    /\ Returned
    /\ \/ log.branch = "no text"
       \/ log.text_blocks = Some(<<>>)

\* C3: when the text-block sequence is empty (the OCR output is null, empty
\* or has only skipped entries) extract_id_card_info returns the empty
\* mapping and no error, for every card-type hint, side hint and debug
\* setting.
C3_EmptyBlocksEmptyResult ==
    NoTextBlocks =>
        /\ result = [raised |-> FALSE, value |-> EmptyDict]
        /\ log.exception = "none"

\* C4: an entry of the wrong arity is skipped and never aborts the
\* extraction: the text blocks are those of the well-formed entries in the
\* engine's order, and the result is the result for the page without the
\* malformed entries.  Stated for the pages that keep a well-formed entry
\* (a page that keeps none is the case of C3).
C4_MalformedSkipped ==
    (Returned /\ log.branch # "preprocess" /\ log.engine # "raised"
        /\ WellFormedOnly(EnginePage) # <<>>) =>
        LET clean == ExtractFromOcrResult(WellFormedOnly(EnginePage), call.is_front,
                                          call.card_type, call.debug)
        IN  /\ log.text_blocks = clean.text_blocks
            /\ result = TryExcept(clean)

\* C5: in a result of a call without debug no field has the empty string
\* as its value.
C5_NoEmptyField ==
    (Returned /\ ~call.debug) =>
        \A key \in DOMAIN result.value : result.value[key] # <<>>

\* some character of the value is a character of the text of some block
SharesText(value, text_blocks) ==
    \E i \in DOMAIN text_blocks, j \in DOMAIN value :
        Contains(text_blocks[i].text, <<value[j]>>)

\* C6: no field is fabricated: every value in the result of a call without
\* debug is derived from the text of the blocks, so at the least it has a
\* character of some block's text; no value is there whatever the blocks
\* contain.  Stated for calls that had a text block, and for every field
\* but card_type, the name of the document variant.
C6_NoFabrication ==
    (TextBlocksBuilt /\ ~call.debug /\ log.text_blocks[1] # <<>>) =>
        \A key \in DOMAIN result.value \ {"card_type"} :
            SharesText(result.value[key], log.text_blocks[1])

\* the texts have a front label and neither a back label nor a foreign keyword
OnlyFrontLabels(text_blocks) ==
    LET text == Concatenated(text_blocks)
    IN  /\ Occurring(front_indicators, text) > 0
        /\ Occurring(back_indicators, text) = 0
        /\ Occurring(foreign_keywords, text) = 0

\* C8: for blocks whose texts have front labels of the national card (any
\* non-empty subset of the six), no back label and no foreign keyword,
\* detect_card_type returns (national, front), and in auto mode the
\* national front extractor is the one that runs.
C8_FrontLabelsFront ==
    (TextBlocksBuilt /\ OnlyFrontLabels(log.text_blocks[1])) =>
        /\ detect_card_type(log.text_blocks[1]) = <<"chinese", TRUE>>
        /\ (call.card_type = "auto" /\ ~call.debug) =>
                /\ log.detection = <<<<"chinese", TRUE>>>>
                /\ log.branch = "front"

\* an auto call with the side hint "back", on a page with all six front
\* labels and nothing else, ran the front extractor
C8_Witness ==
    /\ TextBlocksBuilt
    /\ call.card_type = "auto"
    /\ ~call.is_front
    /\ ~call.debug
    /\ BlockTexts(log.text_blocks[1]) = front_indicators
    /\ log.branch = "front"

\* the configuration with both performance flags off
FlagsOff == [enable_fast_mode |-> FALSE, enable_memory_optimization |-> FALSE]

\* what the same call returns with fast_mode = false and both flags off, when
\* the engine does not fail
StandardResult ==
    extract_id_card_info(FlagsOff, call.cache, world.output, FALSE, call.image_data,
                         call.is_front, call.card_type, call.debug, FALSE).returned

\* C13 as claimed: with fast_mode = true, or with the fast-mode or the
\* memory-optimisation flag on, an image whose OCR output holds recognisable
\* fields gives the same non-empty result as with all of them off.
C13_FastModeSameResult ==
    (/\ Returned
     /\ call.fast_mode \/ call.config.enable_fast_mode
            \/ call.config.enable_memory_optimization
     /\ ~StandardResult.raised
     /\ StandardResult.value # EmptyDict)
        => result = StandardResult

MaxCalls == 3
MaxNewImages == 3

\* what the engine reads in the image with payload p
EngineReads(p) ==
    EnginePages(<<<<OcrEntry(IF p % 2 = 0 THEN <<"zhang", "san">> ELSE <<"1", "2">>,
                             100, 20)>>>>)

\* the cache of a process that has recognised the images 1..n, in that order
CacheAfter(n) ==
    [p \in 1..n |-> [key |-> get_image_hash(ImageData(p, FALSE)),
                     value |-> FirstPage(EngineReads(p))]]

\* the images asked for: the oldest two and the newest of the cache, and new ones
CachePayloads ==
    {1, 2, cache_max_size - 1} \cup (cache_max_size..(cache_max_size + MaxNewImages))

InitCache ==
    /\ OCR_PERFORMANCE_CONFIG = [enable_fast_mode |-> FALSE, enable_memory_optimization |-> FALSE]
    /\ ocr_cache \in {CacheAfter(cache_max_size - 1), CacheAfter(cache_max_size)}
    /\ world = NoWorld
    /\ pc = "serving"
    /\ call = NoCall
    /\ result = FALSE
    /\ log = [fn |-> "recognize_text", calls |-> 0, hits |-> {}, evicted |-> {},
              failed |-> {}]

\* the call returns: done is what recognize_text gave
RecognizeTextReturns(image_data, done) ==
    /\ log.calls < MaxCalls
    /\ call' = [fn |-> "recognize_text", image_data |-> image_data]
    /\ result' = [ocr_result |-> done.ocr_result, engine |-> done.engine]
    /\ ocr_cache' = done.cache
    /\ log' = [fn |-> "recognize_text", calls |-> log.calls + 1,
               hits |-> IF done.engine = "not called"
                        THEN log.hits \cup {get_image_hash(image_data)} ELSE log.hits,
               evicted |-> IF ocr_cache # <<>> /\ ~CacheHas(done.cache, ocr_cache[1].key)
                           THEN log.evicted \cup {ocr_cache[1].key} ELSE log.evicted,
               failed |-> IF done.engine = "raised"
                          THEN log.failed \cup {get_image_hash(image_data)} ELSE log.failed]
    /\ UNCHANGED <<OCR_PERFORMANCE_CONFIG, world, pc>>

RecognizeText ==
    \E payload \in CachePayloads, with_prefix \in BOOLEAN, engine_raises \in BOOLEAN :
        RecognizeTextReturns(ImageData(payload, with_prefix),
                             recognize_text(ocr_cache, EngineReads(payload), engine_raises,
                                            ImageData(payload, with_prefix)))

NextCache == RecognizeText

SpecCache == InitCache /\ [][NextCache]_vars

\* the keys of the cache, oldest first
CacheKeys(cache) == [i \in 1..Len(cache) |-> cache[i].key]

\* one call of recognize_text for the key: a hit leaves the cache as it is,
\* a failed engine call too, and a miss appends the key, after dropping the
\* oldest key when the cache is full
CacheStep(key) ==
    IF key \in Range(CacheKeys(ocr_cache)) \/ result'.engine = "raised"
    THEN ocr_cache' = ocr_cache
    ELSE IF Len(ocr_cache) >= cache_max_size
    THEN CacheKeys(ocr_cache') = Append(Tail(CacheKeys(ocr_cache)), key)
    ELSE CacheKeys(ocr_cache') = Append(CacheKeys(ocr_cache), key)

\* C16: after any sequence of recognize_text calls the cache holds at most
\* cache_max_size (100) entries; a new key stored into a full cache evicts
\* the entry inserted earliest; and a hit changes neither the entries nor
\* their order, so it never changes which entry is evicted next.
C16_CacheBoundedFifo ==
    /\ [](Len(ocr_cache) <= cache_max_size)
    /\ [][CacheStep(<<"md5", call'.image_data.payload>>)]_vars

\* the oldest entry was hit, and the next new image evicted it all the same
C16_Witness ==
    /\ call.fn = "recognize_text"
    /\ Len(ocr_cache) = cache_max_size
    /\ <<"md5", 1>> \in log.hits
    /\ <<"md5", 1>> \in log.evicted
    /\ ocr_cache[1].key = <<"md5", 2>>
    /\ ocr_cache[cache_max_size].key = <<"md5", call.image_data.payload>>

\* every entry of the cache holds what the engine read in its image
CacheHoldsEngineOutput ==
    \A i \in 1..Len(ocr_cache) :
        ocr_cache[i].value = FirstPage(EngineReads(ocr_cache[i].key[2]))

\* one call of recognize_text for the key: an entry of the cache is returned
\* without the engine; without an entry the engine is called; when it raises
\* the call gives the empty list and the cache stays as it is, without the
\* key; what the cache gains is the key with the output of an engine call
\* that returned
FailureNotCached(key) ==
    /\ CacheHas(ocr_cache, key) =>
            /\ result'.engine = "not called"
            /\ result'.ocr_result = get_cached_result(ocr_cache, key)
    /\ ~CacheHas(ocr_cache, key) => result'.engine \in {"raised", "returned"}
    /\ result'.engine = "raised" =>
            /\ result'.ocr_result = <<>>
            /\ ocr_cache' = ocr_cache
            /\ ~CacheHas(ocr_cache', key)
    /\ \A i \in 1..Len(ocr_cache') :
            \/ \E k \in 1..Len(ocr_cache) : ocr_cache'[i] = ocr_cache[k]
            \/ /\ result'.engine = "returned"
               /\ ocr_cache'[i] = [key |-> key, value |-> result'.ocr_result]

\* C30: a failed OCR attempt is never cached: when the engine raises inside
\* recognize_text the call returns the empty list and leaves the cache as it
\* was, so a later call with the same image data calls the engine again;
\* only the output of an engine call that returned is stored, and a stored
\* entry is what every later call with the same image data returns for as
\* long as the entry is in the cache.
C30_FailureNotCached ==
    /\ []CacheHoldsEngineOutput
    /\ [][FailureNotCached(get_image_hash(call'.image_data))]_vars

\* the engine failed on an image earlier, and this call with the same image
\* data called the engine again and stored what it read
C30_Witness ==
    /\ call.fn = "recognize_text"
    /\ get_image_hash(call.image_data) \in log.failed
    /\ result.engine = "returned"
    /\ CacheHas(ocr_cache, get_image_hash(call.image_data))
    /\ result.ocr_result = get_cached_result(ocr_cache, get_image_hash(call.image_data))

(***************************************************************************)
(* Specification SpecName: _extract_name_smart on the text blocks of a     *)
(* page, and lines 397-400 of extract_id_card_info on what it returns      *)
(***************************************************************************)

\* longest block sequence handed to _extract_name_smart
MaxNameBlocks == 3

\* block texts: 姓名张三 / 姓名 / 李四 / 王茹 / 性别 / 12 / 张三1 /
\* 姓名 12345678901 (what follows the label is longer than 10)
NameTexts ==
    {<<"xing", "ming", "zhang", "san">>,
     <<"xing", "ming">>,
     <<"lib", "si">>,
     <<"wang", "ru">>,
     <<"xingb", "bie">>,
     <<"1", "2">>,
     <<"zhang", "san", "1">>,
     <<"xing", "ming", " ", "1", "2", "3", "4", "5", "6", "7", "8", "9", "0", "1">>}

\* block centres in pixels
NameCentres == {<<100, 40>>, <<200, 40>>, <<120, 100>>}

NameBlocks == {FrontInputBlock(text, c) : text \in NameTexts, c \in NameCentres}

NameInputs == UNION {[1..n -> NameBlocks] : n \in 0..MaxNameBlocks}

\* what each of the three methods gives on the blocks, and the mapping after
\* lines 397-400
NameLog(text_blocks, label, name) ==
    [fn |-> "_extract_name_smart",
     inline |-> NameInline(text_blocks, 1),
     label |-> label,
     proximity |-> IF label # 0 /\ NameCandidates(text_blocks, text_blocks[label]) # <<>>
                   THEN ClosestCandidate(text_blocks, text_blocks[label],
                                         NameCandidates(text_blocks, text_blocks[label]))
                   ELSE None,
     format |-> NameByFormat(text_blocks, 1),
     info |-> PutIfFound(EmptyDict, "name", name)]

\* the call returns: name is what _extract_name_smart gave
NameReturns(text_blocks, name) ==
    /\ pc = "idle"
    /\ pc' = "returned"
    /\ call' = [fn |-> "_extract_name_smart", text_blocks |-> text_blocks]
    /\ result' = name
    /\ log' = NameLog(text_blocks, NameLabelIndex(text_blocks, 1), name)
    /\ UNCHANGED <<OCR_PERFORMANCE_CONFIG, ocr_cache, world>>

ExtractNameSmart ==
    \E text_blocks \in NameInputs : NameReturns(text_blocks, extract_name_smart(text_blocks))

NextName == ExtractNameSmart \/ Return

SpecName == InitIdle /\ [][NextName]_vars

NameReturned == pc = "returned" /\ call.fn = "_extract_name_smart"

\* the blocks other than the label block that may hold the name: not a field
\* label, at most 10 characters, plausible as a name
PlausibleNear(text_blocks, label) ==
    {i \in 1..Len(text_blocks) :
        /\ text_blocks[i] # text_blocks[label]
        /\ ~InList(strip(text_blocks[i].text), name_skip_labels)
        /\ Len(strip(text_blocks[i].text)) <= 10
        /\ is_valid_name(strip(text_blocks[i].text))}

\* C21: _extract_name_smart tries the inline, the label-proximity and the
\* format-fallback method in that order and returns what the first
\* successful one gives; the candidate that label-proximity returns is one
\* nearest to the label block; and when all three fail it returns null and
\* the mapping gets no name key.
C21_NameStrategiesInOrder ==
    NameReturned =>
        /\ result = IF ~IsNone(log.inline) THEN log.inline
                    ELSE IF ~IsNone(log.proximity) THEN log.proximity
                    ELSE log.format
        /\ (IsNone(log.inline) /\ ~IsNone(log.proximity)) =>
                \E i \in PlausibleNear(call.text_blocks, log.label) :
                    /\ strip(call.text_blocks[i].text) = result[1]
                    /\ \A j \in PlausibleNear(call.text_blocks, log.label) :
                            Distance2(call.text_blocks[i].center,
                                      call.text_blocks[log.label].center)
                                <= Distance2(call.text_blocks[j].center,
                                             call.text_blocks[log.label].center)
        /\ IsNone(result) <=> "name" \notin DOMAIN log.info

\* the label 姓名 stands alone, 李四 comes first but 王茹 lies nearer to the
\* label: label-proximity returned 王茹 although the format fallback would
\* have given 李四
C21_Witness ==
    /\ NameReturned
    /\ IsNone(log.inline)
    /\ log.proximity = Some(<<"wang", "ru">>)
    /\ log.format = Some(<<"lib", "si">>)
    /\ result = Some(<<"wang", "ru">>)
    /\ log.info = Put(EmptyDict, "name", <<"wang", "ru">>)

\* the field-label words: 姓名 性别 民族 出生 住址 公民身份号码 公民 身份 号码
FieldLabelWords ==
    {<<"xing", "ming">>, <<"xingb", "bie">>, <<"min", "zu">>, <<"chu", "sheng">>,
     <<"zhu", "zhi">>, <<"gong", "min", "shen", "fen", "hao", "ma">>,
     <<"gong", "min">>, <<"shen", "fen">>, <<"hao", "ma">>}

\* C22 as claimed: a name returned by the label-proximity or the
\* format-fallback method comes from a block other than a label, has 2 to 5
\* characters of which at least 80% are ideographs, and is not a field-label
\* word.
C22_NameIsPlausible ==
    (NameReturned /\ IsNone(log.inline) /\ ~IsNone(result)) =>
        /\ Len(result[1]) \in 2..5
        /\ 10 * Cardinality({k \in 1..Len(result[1]) : result[1][k] \in CJK})
                >= 8 * Len(result[1])
        /\ result[1] \notin FieldLabelWords
        /\ \E i \in 1..Len(call.text_blocks) :
                /\ strip(call.text_blocks[i].text) = result[1]
                /\ \A w \in FieldLabelWords : ~Contains(call.text_blocks[i].text, w)

(***************************************************************************)
(* Specification SpecId: _extract_id_number on the text blocks of a page   *)
(***************************************************************************)

\* longest block sequence handed to _extract_id_number
MaxIdBlocks == 3

\* block texts: 公民身份号码 / 公民身份号码110101199506070011 /
\* 110101199506070011 / 11010119900307123X / 住址北京市 / 12
IdTexts ==
    {<<"gong", "min", "shen", "fen", "hao", "ma">>,
     <<"gong", "min", "shen", "fen", "hao", "ma",
       "1","1","0","1","0","1","1","9","9","5","0","6","0","7","0","0","1","1">>,
     <<"1","1","0","1","0","1","1","9","9","5","0","6","0","7","0","0","1","1">>,
     <<"1","1","0","1","0","1","1","9","9","0","0","3","0","7","1","2","3","X">>,
     <<"zhu", "zhi", "bei", "jing", "shi">>,
     <<"1", "2">>}

\* block centres in pixels: the label's line, 20 pixels and 200 pixels below
IdCentres == {<<100, 40>>, <<200, 60>>, <<200, 240>>}

IdBlocks == {FrontInputBlock(text, c) : text \in IdTexts, c \in IdCentres}

IdInputs == UNION {[1..n -> IdBlocks] : n \in 0..MaxIdBlocks}

\* the call returns: id_number is what _extract_id_number gave
IdNumberReturns(text_blocks, id_number) ==
    /\ pc = "idle"
    /\ pc' = "returned"
    /\ call' = [fn |-> "_extract_id_number", text_blocks |-> text_blocks]
    /\ result' = id_number
    /\ log' = [fn |-> "_extract_id_number",
               labelled |-> IdNumberByLabel(text_blocks, 1),
               anywhere |-> IdNumberAnywhere(text_blocks, 1)]
    /\ UNCHANGED <<OCR_PERFORMANCE_CONFIG, ocr_cache, world>>

ExtractIdNumber ==
    \E text_blocks \in IdInputs : IdNumberReturns(text_blocks, extract_id_number(text_blocks))

NextId == ExtractIdNumber \/ Return

SpecId == InitIdle /\ [][NextId]_vars

IdReturned == pc = "returned" /\ call.fn = "_extract_id_number"

\* the blocks that contain the label 公民身份号码
IdLabelBlocks(text_blocks) ==
    {i \in 1..Len(text_blocks) :
        Contains(text_blocks[i].text, <<"gong", "min", "shen", "fen", "hao", "ma">>)}

\* C23 as claimed: _extract_id_number returns the first match or null; when
\* a block contains the label 公民身份号码 the number comes from that block
\* or from another block whose centre is less than 50 pixels above or below
\* it, and the scan of all blocks is used only when no block contains the
\* label; every value returned has 18 characters and matches the ID-number
\* pattern.
C23_IdSearchOrder ==
    IdReturned =>
        /\ ~IsNone(result) =>
                Len(result[1]) = 18 /\ re_match(id_number_text_pattern, result[1]).found
        /\ IF IdLabelBlocks(call.text_blocks) = {}
           THEN result = log.anywhere
           ELSE ~IsNone(result) =>
                    \E i \in IdLabelBlocks(call.text_blocks), j \in 1..Len(call.text_blocks) :
                        /\ Contains(call.text_blocks[j].text, result[1])
                        /\ Abs(call.text_blocks[j].center[2] - call.text_blocks[i].center[2])
                                < 4 * 50

(***************************************************************************)
(* Specification SpecThreads: extract_id_card_info called from threads     *)
(* that share OCR_PERFORMANCE_CONFIG and the cache, one step for each      *)
(* access to the shared flag                                               *)
(***************************************************************************)

\* the threads, each of which makes one call
MaxThreads == 3

Threads == 1..MaxThreads

\* the image of all the calls: nothing to read in it, or the one block 姓名张三
ThreadWorlds ==
    {[payload |-> "image", decodable |-> TRUE, output |-> o] :
        o \in {EnginePages(<<>>),
               EnginePages(<<<<OcrEntry(<<"xing", "ming", "zhang", "san">>, 100, 20)>>>>)}}

ThreadCardTypes == {"chinese", "foreign_new"}

NoThreadCall ==
    [fn |-> "none", fast_mode |-> FALSE, card_type |-> "chinese",
     config_at_entry |-> None, original_fast_mode |-> None, observed |-> None,
     body |-> None, config_at_return |-> None]

InitThreads ==
    /\ OCR_PERFORMANCE_CONFIG \in Configs
    /\ ocr_cache = <<>>
    /\ world \in ThreadWorlds
    /\ pc = [t \in Threads |-> "idle"]
    /\ call = [t \in Threads |-> NoThreadCall]
    /\ result = [t \in Threads |-> FALSE]
    /\ log = [fn |-> "threads", config_at_start |-> OCR_PERFORMANCE_CONFIG,
              interleaved |-> [t \in Threads |-> FALSE]]

\* the threads that are inside extract_id_card_info
ActiveThreads == {t \in Threads : pc[t] \notin {"idle", "returned"}}

\* a thread enters extract_id_card_info (line 292); the calls in progress at
\* that moment and the new one are interleaved from now on
Enter(t) ==
    /\ pc[t] = "idle"
    /\ \E fast_mode \in BOOLEAN, card_type \in ThreadCardTypes :
          call' = [call EXCEPT ![t] =
                      [NoThreadCall EXCEPT !.fn = "extract_id_card_info",
                                            !.fast_mode = fast_mode,
                                            !.card_type = card_type,
                                            !.config_at_entry = Some(OCR_PERFORMANCE_CONFIG)]]
    /\ pc' = [pc EXCEPT ![t] = "entered"]
    /\ log' = [log EXCEPT !.interleaved =
                  [u \in Threads |->
                      log.interleaved[u]
                          \/ (ActiveThreads # {} /\ u \in ActiveThreads \cup {t})]]
    /\ UNCHANGED <<OCR_PERFORMANCE_CONFIG, ocr_cache, world, result>>

\* line 317: original_fast_mode = OCR_PERFORMANCE_CONFIG["enable_fast_mode"]
SaveFastMode(t) ==
    /\ pc[t] = "entered"
    /\ call[t].fast_mode
    /\ call' = [call EXCEPT ![t].original_fast_mode =
                                Some(OCR_PERFORMANCE_CONFIG.enable_fast_mode)]
    /\ pc' = [pc EXCEPT ![t] = "saved"]
    /\ UNCHANGED <<OCR_PERFORMANCE_CONFIG, ocr_cache, world, result, log>>

\* line 318: OCR_PERFORMANCE_CONFIG["enable_fast_mode"] = True
SetFastMode(t) ==
    /\ pc[t] = "saved"
    /\ OCR_PERFORMANCE_CONFIG' = [OCR_PERFORMANCE_CONFIG EXCEPT !.enable_fast_mode = TRUE]
    /\ pc' = [pc EXCEPT ![t] = "set"]
    /\ UNCHANGED <<ocr_cache, world, call, result, log>>

\* lines 322-326: the flags are read; with either of them on the call goes
\* to preprocess_id_card_image_fast, which ImageProcessor does not have
ReadFlags(t) ==
    /\ \/ pc[t] = "set"
       \/ pc[t] = "entered" /\ ~call[t].fast_mode
    /\ call' = [call EXCEPT ![t].observed =
                    Some(OCR_PERFORMANCE_CONFIG.enable_fast_mode
                            \/ OCR_PERFORMANCE_CONFIG.enable_memory_optimization)]
    /\ pc' = [pc EXCEPT ![t] =
                 IF OCR_PERFORMANCE_CONFIG.enable_fast_mode
                        \/ OCR_PERFORMANCE_CONFIG.enable_memory_optimization
                 THEN "handler" ELSE "body"]
    /\ UNCHANGED <<OCR_PERFORMANCE_CONFIG, ocr_cache, world, result, log>>

\* lines 326-662 have run and given body: an exception goes to the handler,
\* the national branches go on to line 664, the other returns leave at once
BodyReturns(t, recognized, body) ==
    /\ pc[t] = "body"
    /\ ocr_cache' = recognized.cache
    /\ call' = [call EXCEPT ![t].body = Some(body),
                            ![t].config_at_return =
                                IF ~body.raised /\ body.branch \notin {"front", "back"}
                                THEN Some(OCR_PERFORMANCE_CONFIG) ELSE None]
    /\ pc' = [pc EXCEPT ![t] =
                 IF body.raised THEN "handler"
                 ELSE IF body.branch \in {"front", "back"} THEN "restore"
                 ELSE "returned"]
    /\ result' = [result EXCEPT ![t] =
                     IF ~body.raised /\ body.branch \notin {"front", "back"}
                     THEN body.value ELSE result[t]]
    /\ UNCHANGED <<OCR_PERFORMANCE_CONFIG, world, log>>

BodyRecognized(t, recognized) ==
    BodyReturns(t, recognized,
                ExtractFromOcrResult(recognized.ocr_result, TRUE, call[t].card_type, FALSE))

Body(t) ==
    BodyRecognized(t, recognize_text(ocr_cache, world.output, FALSE,
                                     ImageData(world.payload, FALSE)))

\* a restore that leaves the flag as it is
RestoreFastMode_keeps_flag(config, fast_mode, original_fast_mode) == config

\* lines 664-665 and 673-675: with fast_mode the flag gets the saved value
RestoreFastMode(config, fast_mode, original_fast_mode) ==
    IF fast_mode /\ ~IsNone(original_fast_mode)
    THEN [config EXCEPT !.enable_fast_mode = original_fast_mode[1]]
    ELSE config

\* the call returns value with the flag restored
ThreadReturns(t, at, value, config) ==
    /\ pc[t] = at
    /\ OCR_PERFORMANCE_CONFIG' = config
    /\ call' = [call EXCEPT ![t].config_at_return = Some(config)]
    /\ result' = [result EXCEPT ![t] = value]
    /\ pc' = [pc EXCEPT ![t] = "returned"]
    /\ UNCHANGED <<ocr_cache, world, log>>

\* lines 664-668, the end of the national branches
RestoreAndReturn(t) ==
    /\ pc[t] = "restore"
    /\ ThreadReturns(t, "restore", call[t].body[1].value,
                     RestoreFastMode(OCR_PERFORMANCE_CONFIG, call[t].fast_mode,
                                     call[t].original_fast_mode))

\* lines 670-682, the exception handler
Handler(t) ==
    ThreadReturns(t, "handler", EmptyDict,
                  RestoreFastMode(OCR_PERFORMANCE_CONFIG, call[t].fast_mode,
                                  call[t].original_fast_mode))

NextThreads ==
    \E t \in Threads :
        \/ Enter(t)
        \/ SaveFastMode(t)
        \/ SetFastMode(t)
        \/ ReadFlags(t)
        \/ Body(t)
        \/ RestoreAndReturn(t)
        \/ Handler(t)

SpecThreads == InitThreads /\ [][NextThreads]_vars

\* what a call reads at line 322 when no other call touches the flag
OwnFlags(t) ==
    \/ call[t].fast_mode
    \/ call[t].config_at_entry[1].enable_fast_mode
    \/ call[t].config_at_entry[1].enable_memory_optimization

\* C25: the save, set and restore of the flag is a race between calls that
\* share the configuration: a call that no other call overlaps reads at line
\* 322 the flag as the configuration and its own fast_mode make it, and
\* leaves the configuration as it found it; only interleaved calls (the
\* witness) make a call with fast_mode = false read a flag that another call
\* set, and leave the flag different from its initial value once every call
\* has returned.
C25_FastModeRace ==
    \A t \in Threads :
        (pc[t] = "returned" /\ ~log.interleaved[t])
            => /\ call[t].observed = Some(OwnFlags(t))
               /\ call[t].config_at_return = call[t].config_at_entry

\* all the calls have returned, one made with fast_mode = false and both
\* flags off at its entry has read the flag as on, and the flag differs from
\* its value before the calls
C25_Witness ==
    /\ \A t \in Threads : pc[t] = "returned"
    /\ OCR_PERFORMANCE_CONFIG.enable_fast_mode # log.config_at_start.enable_fast_mode
    /\ \E t \in Threads :
          /\ ~call[t].fast_mode
          /\ ~OwnFlags(t)
          /\ call[t].observed = Some(TRUE)

(***************************************************************************)
(* Specification SpecPost: _post_process_address applied to an address and *)
(* the text blocks of the page                                             *)
(***************************************************************************)

\* longest block sequence handed to _post_process_address
MaxPostBlocks == 2

\* addresses: 太平镇边庄村218号 / 太平镇边庄村 / 北京市海淀区5号 / 北京市1号 /
\* 北京市
PostAddresses ==
    {<<"tai", "ping", "zhen", "bian", "zhuang", "cun", "2", "1", "8", "hao">>,
     <<"tai", "ping", "zhen", "bian", "zhuang", "cun">>,
     <<"bei", "jing", "shi", "hai", "dian", "qu", "5", "hao">>,
     <<"bei", "jing", "shi", "1", "hao">>,
     <<"bei", "jing", "shi">>}

\* block texts: 边庄村218号 / 李庄村5号 / 218号 / 太平镇 / 住址太平镇 /
\* 110101199003071233 / 姓名张三
PostTexts ==
    {<<"bian", "zhuang", "cun", "2", "1", "8", "hao">>,
     <<"lib", "zhuang", "cun", "5", "hao">>,
     <<"2", "1", "8", "hao">>,
     <<"tai", "ping", "zhen">>,
     <<"zhu", "zhi", "tai", "ping", "zhen">>,
     <<"1","1","0","1","0","1","1","9","9","0","0","3","0","7","1","2","3","3">>,
     <<"xing", "ming", "zhang", "san">>}

PostInputs == UNION {[1..n -> PostTexts] : n \in 0..MaxPostBlocks}

\* the call returns: processed_address is what _post_process_address gave
PostProcessReturns(address, text_blocks, processed_address) ==
    /\ pc = "idle"
    /\ pc' = "returned"
    /\ call' = [fn |-> "_post_process_address", address |-> address,
                text_blocks |-> text_blocks]
    /\ result' = processed_address
    /\ log' = [fn |-> "_post_process_address",
               has_village |-> re_search(village_char_pattern, address).found,
               has_house_number |-> re_search(house_number_pattern, address).found]
    /\ UNCHANGED <<OCR_PERFORMANCE_CONFIG, ocr_cache, world>>

PostProcessBlocks(address, text_blocks) ==
    PostProcessReturns(address, text_blocks, post_process_address(address, text_blocks))

PostProcessAddress ==
    \E address \in PostAddresses, texts \in PostInputs :
        PostProcessBlocks(address, [i \in 1..Len(texts) |-> DetectBlock(texts[i], i)])

NextPost == PostProcessAddress \/ Return

SpecPost == InitIdle /\ [][NextPost]_vars

\* C27 as claimed: _post_process_address only completes addresses that lack
\* a village or group name or a house number: whatever the blocks, an
\* address that already holds one of 村, 组, 社, 区, 队 and digits followed by
\* 号 comes back unchanged.
C27_CompleteAddressUnchanged ==
    (/\ pc = "returned"
     /\ call.fn = "_post_process_address"
     /\ log.has_village
     /\ log.has_house_number)
        => result = call.address

(***************************************************************************)
(* Specification SpecForeign: _extract_foreign_id_card_info on the blocks  *)
(* of a foreign card, and _format_english_name on all-uppercase names      *)
(***************************************************************************)

\* longest block sequence handed to _extract_foreign_id_card_info
MaxForeignBlocks == 2

\* longest name handed to _format_english_name on its own
MaxUpperName == 12

\* block texts: 加拿大/CAN / 加拿大 / 美国/USA / USA / CAN110081080310 / 国籍 /
\* ABCDEFGHI / ZHENGJIANYANGBEN / ABCDEFGHIJKLMN / ZHENG.JIAN / ABCDEFGH
ForeignTexts ==
    {<<"jia", "na", "da", "/", "C", "A", "N">>,
     <<"jia", "na", "da">>,
     <<"mei", "guo", "/", "U", "S", "A">>,
     <<"U", "S", "A">>,
     <<"C", "A", "N", "1", "1", "0", "0", "8", "1", "0", "8", "0", "3", "1", "0">>,
     <<"guo", "jib">>,
     <<"A", "B", "C", "D", "E", "F", "G", "H", "I">>,
     <<"Z", "H", "E", "N", "G", "J", "I", "A", "N", "Y", "A", "N", "G", "B", "E", "N">>,
     <<"A", "B", "C", "D", "E", "F", "G", "H", "I", "J", "K", "L", "M", "N">>,
     <<"Z", "H", "E", "N", "G", ".", "J", "I", "A", "N">>,
     <<"A", "B", "C", "D", "E", "F", "G", "H">>}

ForeignInputs == UNION {[1..n -> ForeignTexts] : n \in 0..MaxForeignBlocks}

ForeignCardTypes == {"foreign_new", "foreign_old"}

\* names for _format_english_name: the first n letters of the alphabet, a
\* name in lower case and one with the prefix ZHENGJIAN
Alphabet == <<"A", "B", "C", "D", "E", "F", "G", "H", "I", "J", "K", "L">>

UpperNames ==
    {SubSeq(Alphabet, 1, n) : n \in 0..MaxUpperName}
    \cup {<<"A", "b", "c", "d">>,
          <<"Z", "H", "E", "N", "G", "J", "I", "A", "N", "A", "B", "C">>}

\* the call returns: info is what _extract_foreign_id_card_info gave
ForeignReturns(text_blocks, card_type, info) ==
    /\ pc = "idle"
    /\ pc' = "returned"
    /\ call' = [fn |-> "_extract_foreign_id_card_info", text_blocks |-> text_blocks,
                card_type |-> card_type]
    /\ result' = info
    /\ log' = [fn |-> "_extract_foreign_id_card_info"]
    /\ UNCHANGED <<OCR_PERFORMANCE_CONFIG, ocr_cache, world>>

ExtractForeignBlocks(text_blocks, card_type) ==
    ForeignReturns(text_blocks, card_type,
                   extract_foreign_id_card_info(text_blocks, card_type))

ExtractForeignIdCardInfo ==
    \E texts \in ForeignInputs, card_type \in ForeignCardTypes :
        ExtractForeignBlocks([i \in 1..Len(texts) |-> DetectBlock(texts[i], i)], card_type)

\* _format_english_name called on a name; the log tells which of
\* common_patterns matched (0: none, the midpoint split)
FormatEnglishName ==
    \E name_text \in UpperNames :
        /\ pc = "idle"
        /\ pc' = "returned"
        /\ call' = [fn |-> "_format_english_name", name_text |-> name_text]
        /\ result' = format_english_name(name_text)
        /\ log' = [fn |-> "_format_english_name",
                   pattern |-> FirstPattern(common_patterns, name_text, 1)]
        /\ UNCHANGED <<OCR_PERFORMANCE_CONFIG, ocr_cache, world>>

NextForeign == ExtractForeignIdCardInfo \/ FormatEnglishName \/ Return

SpecForeign == InitIdle /\ [][NextForeign]_vars

ForeignReturned == pc = "returned" /\ call.fn = "_extract_foreign_id_card_info"

\* the first block whose text holds an entry of the country vocabulary (0:
\* no block does)
FirstCountryBlock(text_blocks) == FirstWhere(BlockTexts(text_blocks), HasCountry, 1)

\* the country an entry of the vocabulary stands for: 加拿大, 美国, 英国
CountryName(c) ==
    IF c <= 2 THEN <<"jia", "na", "da">>
    ELSE IF c <= 4 THEN <<"mei", "guo">>
    ELSE <<"ying", "guo">>

\* value comes from the text: it is the text, or the country of a vocabulary
\* entry the text holds
NationalityFrom(text, value) ==
    \/ value = text
    \/ \E c \in 1..Len(countries) : Contains(text, countries[c]) /\ value = CountryName(c)

\* C28 as claimed: in the foreign-card extractor, new and old version alike,
\* when some block's text holds an entry of the country vocabulary the
\* result has a nationality taken from the first such block, and it has no
\* nationality only when no block holds an entry.
C28_NationalityFromFirstCountryBlock ==
    ForeignReturned =>
        IF FirstCountryBlock(call.text_blocks) = 0
        THEN "nationality" \notin DOMAIN result
        ELSE /\ "nationality" \in DOMAIN result
             /\ NationalityFrom(call.text_blocks[FirstCountryBlock(call.text_blocks)].text,
                                result["nationality"])

\* value is text with one blank put in, at least 3 characters from either end
OneBlankInserted(text, value) ==
    \E k \in 3..(Len(text) - 3) :
        value = SubSeq(text, 1, k) \o <<" ">> \o SubSeq(text, k + 1, Len(text))

\* the block the old version takes the English name from (line 1225), 0
\* when there is none
EnglishNameBlock(text_blocks) ==
    FirstWhere(BlockTexts(text_blocks),
               LAMBDA text : re_match(full_name_pattern, text).found /\ Len(text) > 8, 1)

\* the English name of an old-version card comes from an undotted block
FromUndottedBlock ==
    /\ ForeignReturned
    /\ call.card_type = "foreign_old"
    /\ EnglishNameBlock(call.text_blocks) # 0
    /\ ~Contains(call.text_blocks[EnglishNameBlock(call.text_blocks)].text, <<".">>)

\* the English name is the undotted block's text with one blank put in
UndottedBlockSplit ==
    FromUndottedBlock =>
        /\ "english_name" \in DOMAIN result
        /\ OneBlankInserted(call.text_blocks[EnglishNameBlock(call.text_blocks)].text,
                            result["english_name"])

\* _format_english_name has returned from its midpoint split
MidpointSplit ==
    /\ pc = "returned"
    /\ call.fn = "_format_english_name"
    /\ call.name_text # <<>>
    /\ AllIn(call.name_text, AsciiUpper)
    /\ log.pattern = 0

====
